---- MODULE Spec2Model ----
(***************************************************************************)
(* License / session lifecycle engine of the NizuaShop license server.     *)
(*                                                                         *)
(* The stores are MongoDB collections accessed through mongoose.  Every    *)
(* `await` of a handler is a scheduling point, so every action below is    *)
(* one store operation of a handler followed by the synchronous code that  *)
(* runs when it resolves, up to the next store operation.  A mongoose      *)
(* document is a private copy of the record: save() writes the modified    *)
(* paths only and never re-reads the record.                               *)
(*                                                                         *)
(* Time is counted in half days (DayLen = 2 units).                        *)
(***************************************************************************)
EXTENDS Integers, Sequences, FiniteSets, TLC

\* ------------------------------------------------------------------ bounds
MaxReqs == 3
MaxSessionReqs == 2
MaxFaults == 1

\* ------------------------------------------------------- program constants
DayLen == 2
SessionDays == 7
SessionDuration == SessionDays * DayLen
LicenseLifetime == 30 * DayLen

NULL == "null"
Reqs == 1..MaxReqs
HWIDs == {"H1", "H2"}
IPs == {"ip1", "ip2"}

\* ------------------------------------------------------------ key strings
\* A key is a sequence of characters, so that the case conversion and the
\* trimming of License.findByKey are computed and not assumed.
UpperOf(c) == CASE c = "k" -> "K" [] c = "a" -> "A" [] c = "z" -> "Z" [] OTHER -> c

toUpperCase(s) == [i \in DOMAIN s |-> UpperOf(s[i])]

RECURSIVE trimStart(_)
trimStart(s) == IF s # <<>> /\ Head(s) = " " THEN trimStart(Tail(s)) ELSE s

RECURSIVE trimEnd(_)
trimEnd(s) == IF s # <<>> /\ s[Len(s)] = " " THEN trimEnd(SubSeq(s, 1, Len(s) - 1)) ELSE s

trim(s) == trimEnd(trimStart(s))

KeyA == <<"K", "A">>
KeyZ == <<"K", "Z">>
\* spellings that match the request validator's upper-case pattern
ValidKeys == {KeyA, KeyZ}
\* spellings an admin can put in the URL of the status route
AdminKeys == {KeyA, <<"k", "a">>, <<"K", "A", " ">>}

\* ------------------------------------------------------------------ tokens
\* jwt.sign is a deterministic function of the payload, the secret and the
\* expiry option: a token is the tuple of what it signs.
NoToken ==
  [licenseKey |-> <<>>, hwid |-> NULL, licenseType |-> NULL, features |-> {},
   iat |-> 0, exp |-> 0, sig |-> "none"]

\* the payload the handler signs: key and hwid of the request, licenseType and
\* features of the license document, and the issue time
sessionPayload(doc, key, hwid, t) ==
  [licenseKey |-> key, hwid |-> hwid, licenseType |-> doc.licenseType,
   features |-> doc.features, iat |-> t]

\* a signer that ignores the expiresIn option
jwtSign_NoLifetime(payload, expiresIn) ==
  [licenseKey |-> payload.licenseKey, hwid |-> payload.hwid,
   licenseType |-> payload.licenseType, features |-> payload.features,
   iat |-> payload.iat, exp |-> payload.iat, sig |-> "valid"]

jwtSign(payload, expiresIn) ==
  [licenseKey |-> payload.licenseKey, hwid |-> payload.hwid,
   licenseType |-> payload.licenseType, features |-> payload.features,
   iat |-> payload.iat, exp |-> payload.iat + expiresIn, sig |-> "valid"]

\* jwt.verify: signature first, then the expiry claim.  The result is the
\* name of the error thrown, or "ok".
jwtVerify(token, t) ==
  CASE token.sig = "malformed" -> "JsonWebTokenError"
    [] token.sig = "forged" -> "JsonWebTokenError"
    [] token.sig = "none" -> "JsonWebTokenError"
    [] t >= token.exp -> "TokenExpiredError"
    [] OTHER -> "ok"

\* ------------------------------------------------------------- audit log
AuditEventTypes ==
  {"key_validation_success", "key_validation_failed", "session_created",
   "session_validated", "session_expired", "session_revoked", "key_created",
   "key_banned", "suspicious_activity", "rate_limit_exceeded", "admin_action",
   "settings_retrieved", "settings_updated", "settings_reset"}

VARIABLES now, licenses, sessions, audit, req, faults, completedBind, jwtExpiry,
          limiter, env

vars == <<now, licenses, sessions, audit, req, faults, completedBind, jwtExpiry, limiter, env>>

\* ---------------------------------------------------------------- records
\* the hit counters of the two rate limiters, per caller address
NoHits == [key |-> [ip \in IPs |-> 0], general |-> [ip \in IPs |-> 0]]

\* the environment the server reads: a development server behind an IP list
DefaultEnv == [NODE_ENV |-> "development", ALLOWED_IPS |-> "list"]

NoLicense ==
  [key |-> <<>>, hwid |-> NULL, used |-> FALSE, status |-> "active", expiresAt |-> 0,
   attempts |-> 0, lastAttempt |-> -1, lastAttemptsReset |-> 0, lastIP |-> NULL,
   licenseType |-> NULL, features |-> {}]

NewLicense(key, createdAt, lifetime) ==
  [key |-> key, hwid |-> NULL, used |-> FALSE, status |-> "active",
   expiresAt |-> createdAt + lifetime, attempts |-> 0, lastAttempt |-> -1,
   lastAttemptsReset |-> createdAt, lastIP |-> NULL,
   licenseType |-> "basic", features |-> {"lobby_manager"}]

NoSession ==
  [sessionToken |-> NoToken, licenseKey |-> <<>>, hwid |-> NULL, expiresAt |-> 0,
   status |-> "none", lastActivity |-> 0, lastIP |-> NULL, present |-> FALSE]

\* what a session check saw in the record it loaded
NoObs == [exists |-> FALSE, status |-> "none", expired |-> FALSE, hwid |-> NULL]

IdleReq ==
  [kind |-> "none", pc |-> "idle", key |-> <<>>, hwid |-> NULL, ip |-> NULL,
   fromStoredKey |-> FALSE, token |-> NoToken, newStatus |-> NULL, oldStatus |-> NULL,
   found |-> FALSE, lic |-> NoLicense, sid |-> 0, sess |-> NoSession,
   reason |-> "none", result |-> "none", issued |-> NoToken,
   \* history of what the request did, used by the properties only
   didBind |-> FALSE, didSave |-> FALSE, didDecrease |-> FALSE,
   sawBind |-> NULL, verified |-> "none", obs |-> NoObs, usedAt |-> -1,
   failedAt |-> "none", staleWrite |-> FALSE, counted |-> FALSE,
   \* the request's timestamp field and what the middleware chain did with it
   timestamp |-> -1, overLimit |-> FALSE, limitedBy |-> "none", retryAfter |-> FALSE,
   recentAttempts |-> -1, checkedAt |-> -1,
   \* the x-admin-api-key header of an admin request
   apiKey |-> NULL,
   \* history: the log held more failures than the threshold when the detector ran
   suspect |-> FALSE]

InFlight(r) == req[r].kind # "none" /\ req[r].pc \notin {"done", "hung"}
Finished(r) == req[r].kind # "none" /\ req[r].pc \in {"done", "hung"}
Quiescent == \A r \in Reqs : ~InFlight(r)

\* A slot is taken in order, which removes the symmetry between slots.
CanStart(r) ==
  /\ req[r].kind = "none"
  /\ IF r = 1 THEN TRUE ELSE req[r - 1].kind # "none"

\* ---------------------------------------------------------------- License
\* License.findByKey
findByKey(key) == toUpperCase(trim(key))

\* an expiry read from the status field
isExpired_StatusField(doc, t) == doc.status = "expired"

isExpired(doc, t) == t > doc.expiresAt

shouldResetAttempts(doc, t) == ((t - doc.lastAttemptsReset) \div DayLen) >= 1

\* an incrementAttempts whose daily reset leaves the counter at zero
incrementAttempts_ResetOnly(doc, ip, fromStoredKey, t) ==
  IF fromStoredKey
    THEN [doc EXCEPT !.lastAttempt = t, !.lastIP = ip]
    ELSE IF shouldResetAttempts(doc, t)
           THEN [doc EXCEPT !.attempts = 0, !.lastAttemptsReset = t,
                            !.lastAttempt = t, !.lastIP = ip]
           ELSE [doc EXCEPT !.attempts = doc.attempts + 1, !.lastAttempt = t, !.lastIP = ip]

\* an incrementAttempts that counts stored-key validations like any other
incrementAttempts_CountStored(doc, ip, fromStoredKey, t) ==
  LET d == IF shouldResetAttempts(doc, t)
             THEN [doc EXCEPT !.attempts = 0, !.lastAttemptsReset = t]
             ELSE doc
  IN [d EXCEPT !.attempts = d.attempts + 1, !.lastAttempt = t, !.lastIP = ip]

\* an incrementAttempts that performs the daily reset for stored keys too
incrementAttempts_ResetStored(doc, ip, fromStoredKey, t) ==
  LET d == IF shouldResetAttempts(doc, t)
             THEN [doc EXCEPT !.attempts = 0, !.lastAttemptsReset = t]
             ELSE doc
  IN IF fromStoredKey
       THEN [d EXCEPT !.lastAttempt = t, !.lastIP = ip]
       ELSE [d EXCEPT !.attempts = d.attempts + 1, !.lastAttempt = t, !.lastIP = ip]

\* the document after incrementAttempts has assigned its fields
incrementAttempts(doc, ip, fromStoredKey, t) ==
  IF fromStoredKey
    THEN [doc EXCEPT !.lastAttempt = t, !.lastIP = ip]
    ELSE LET d == IF shouldResetAttempts(doc, t)
                    THEN [doc EXCEPT !.attempts = 0, !.lastAttemptsReset = t]
                    ELSE doc
         IN [d EXCEPT !.attempts = d.attempts + 1, !.lastAttempt = t, !.lastIP = ip]

\* a bindToHWID that records the machine without marking the key used
bindToHWID_HwidOnly(doc, hwid, t) == [doc EXCEPT !.hwid = hwid, !.lastAttempt = t]

\* the document after bindToHWID has assigned its fields
bindToHWID(doc, hwid, t) == [doc EXCEPT !.hwid = hwid, !.used = TRUE, !.lastAttempt = t]

\* the paths a handler's assignments mark modified: every path whose value
\* changed, and `attempts`, which `+= 1` always changes
modifiedPaths(loaded, doc, always) == {f \in DOMAIN doc : doc[f] # loaded[f]} \cup always

\* a save() that writes every path of the document back
save_WholeDocument(stored, doc, paths) == doc

\* document.save(): $set of the modified paths on the stored record
save(stored, doc, paths) == [f \in DOMAIN stored |-> IF f \in paths THEN doc[f] ELSE stored[f]]

\* ---------------------------------------------------------------- Session
\* a record that drops the hwid it is given
NewSession_Unbound(token, key, hwid, ip, t) ==
  [sessionToken |-> token, licenseKey |-> key, hwid |-> NULL,
   expiresAt |-> t + SessionDuration, status |-> "active",
   lastActivity |-> t, lastIP |-> ip, present |-> TRUE]

NewSession(token, key, hwid, ip, t) ==
  [sessionToken |-> token, licenseKey |-> key, hwid |-> hwid,
   expiresAt |-> t + SessionDuration, status |-> "active",
   lastActivity |-> t, lastIP |-> ip, present |-> TRUE]

\* Session.findByToken: findOne returns the first matching record, 0 if none
findByToken(token) ==
  LET hits == {i \in DOMAIN sessions : sessions[i].present /\ sessions[i].sessionToken = token}
  IN IF hits = {} THEN 0 ELSE CHOOSE i \in hits : \A j \in hits : i <= j

sessionIsExpired(s, t) == t > s.expiresAt

\* isActive() that forgets the status and looks at the expiry only
sessionIsActive_ExpiryOnly(s, t) == ~sessionIsExpired(s, t)

\* isActive() that also asks for the owning license to be unexpired
sessionIsActive_LicenseBound(s, t) ==
  /\ s.status = "active" /\ ~sessionIsExpired(s, t)
  /\ \A k \in DOMAIN licenses : k = s.licenseKey => ~isExpired(licenses[k], t)

sessionIsActive(s, t) == s.status = "active" /\ ~sessionIsExpired(s, t)

\* --------------------------------------------------------------- AuditLog
\* AuditLog.logEvent: the schema's enum validator rejects an unknown type
logEventAccepts(eventType) == eventType \in AuditEventTypes

\* the document logEvent creates: `timestamp` defaults to the time of creation,
\* `ipAddress` is the caller's address the handler passes
AuditEvent(eventType, severity, r, reason) ==
  [eventType |-> eventType, severity |-> severity, by |-> r, reason |-> reason,
   ipAddress |-> IF r \in Reqs THEN req[r].ip ELSE NULL, timestamp |-> now]

\* the positions of a handler at which the pending operation is an audit write
AuditPcs == {"auditSuccess", "auditFail", "auditReject", "auditValidated", "auditRevoked", "audit"}

\* a store or audit operation may fail while the fault budget lasts
CanFail == faults < MaxFaults

\* --------------------------------------------------------------- the clock
\* The clock readings the model visits: the start, a moment later (less than a
\* day), the instant a session issued at the start expires, and the first
\* instant after it.
Times == {0, 1, SessionDuration, SessionDuration + 1}

Tick(t) ==
  /\ t > now
  /\ now' = t
  /\ UNCHANGED <<licenses, sessions, audit, req, faults, completedBind, jwtExpiry, limiter, env>>

\* ------------------------------------------------------ POST /validate-key
\* a rejected promise inside the try block: control goes to the catch block
Throw(r) ==
  /\ CanFail
  /\ faults' = faults + 1
  /\ req' = [req EXCEPT ![r].pc = "catch",
                        ![r].failedAt = IF req[r].pc \in AuditPcs THEN "audit" ELSE "store"]

\* a lookup that would hold a miss against every stored license
ValidateStart_CountsGuess(r, key, hwid, ip, fromStoredKey) ==
  /\ CanStart(r)
  /\ LET k == findByKey(key)
         hit == k \in DOMAIN licenses
         arrived == [IdleReq EXCEPT !.kind = "validate", !.key = key, !.hwid = hwid,
                                    !.ip = ip, !.fromStoredKey = fromStoredKey,
                                    !.sawBind = completedBind]
     IN \/ /\ req' = [req EXCEPT ![r] = [arrived EXCEPT
                         !.found = hit,
                         !.lic = IF hit THEN licenses[k] ELSE NoLicense,
                         !.pc = IF hit THEN "increment" ELSE "auditFail",
                         !.reason = IF hit THEN "none" ELSE "not_found"]]
           /\ licenses' = IF hit THEN licenses
                          ELSE [l \in DOMAIN licenses |->
                                  [licenses[l] EXCEPT !.attempts = @ + 1]]
           /\ UNCHANGED faults
        \/ /\ CanFail
           /\ faults' = faults + 1
           /\ req' = [req EXCEPT ![r] = [arrived EXCEPT !.pc = "catch", !.failedAt = "store"]]
           /\ UNCHANGED licenses
  /\ UNCHANGED <<now, sessions, audit, completedBind, jwtExpiry, limiter, env>>

\* the request reaches the handler, which calls License.findByKey(key)
ValidateStart(r, key, hwid, ip, fromStoredKey) ==
  /\ CanStart(r)
  /\ LET k == findByKey(key)
         hit == k \in DOMAIN licenses
         arrived == [IdleReq EXCEPT !.kind = "validate", !.key = key, !.hwid = hwid,
                                    !.ip = ip, !.fromStoredKey = fromStoredKey,
                                    !.sawBind = completedBind]
     IN \/ /\ req' = [req EXCEPT ![r] = [arrived EXCEPT
                         !.found = hit,
                         !.lic = IF hit THEN licenses[k] ELSE NoLicense,
                         !.pc = IF hit THEN "increment" ELSE "auditFail",
                         !.reason = IF hit THEN "none" ELSE "not_found"]]
           /\ UNCHANGED faults
        \/ /\ CanFail
           /\ faults' = faults + 1
           /\ req' = [req EXCEPT ![r] = [arrived EXCEPT !.pc = "catch", !.failedAt = "store"]]
  /\ UNCHANGED <<now, licenses, sessions, audit, completedBind, jwtExpiry, limiter, env>>

\* the same checks with the expiry tested first
validationOutcome_ExpiryFirst(doc, hwid, t) ==
  CASE isExpired(doc, t) -> "expired"
    [] doc.status = "banned" -> "banned"
    [] doc.status = "suspended" -> "suspended"
    [] doc.used /\ doc.hwid # NULL /\ doc.hwid # hwid -> "hwid_mismatch"
    [] ~doc.used \/ doc.hwid = NULL -> "bind"
    [] OTHER -> "issue"

\* the checks that follow incrementAttempts, first match wins
validationOutcome(doc, hwid, t) ==
  CASE doc.status = "banned" -> "banned"
    [] doc.status = "suspended" -> "suspended"
    [] isExpired(doc, t) -> "expired"
    [] doc.used /\ doc.hwid # NULL /\ doc.hwid # hwid -> "hwid_mismatch"
    [] ~doc.used \/ doc.hwid = NULL -> "bind"
    [] OTHER -> "issue"

\* license.incrementAttempts(ip, fromStoredKey), then the checks on the document
ValidateIncrement(r) ==
  /\ req[r].kind = "validate" /\ req[r].pc = "increment"
  /\ \/ /\ LET k == req[r].lic.key
               doc == incrementAttempts(req[r].lic, req[r].ip, req[r].fromStoredKey, now)
               paths == modifiedPaths(req[r].lic, doc,
                                      IF req[r].fromStoredKey THEN {} ELSE {"attempts"})
               stored == save(licenses[k], doc, paths)
               out == validationOutcome(doc, req[r].hwid, now)
           IN /\ licenses' = [licenses EXCEPT ![k] = stored]
              /\ req' = [req EXCEPT ![r].lic = doc,
                                    ![r].didDecrease = stored.attempts < licenses[k].attempts,
                                    ![r].counted =
                                       IF now - licenses[k].lastAttemptsReset >= DayLen
                                         THEN stored.attempts = 1
                                         ELSE stored.attempts = licenses[k].attempts + 1,
                                    ![r].pc = CASE out = "bind" -> "bind"
                                                [] out = "issue" -> "sessionSave"
                                                [] OTHER -> "auditFail",
                                    ![r].reason = IF out \in {"bind", "issue"} THEN "none" ELSE out]
        /\ UNCHANGED faults
     \/ Throw(r) /\ UNCHANGED licenses
  /\ UNCHANGED <<now, sessions, audit, completedBind, jwtExpiry, limiter, env>>

\* license.bindToHWID(hwid)
ValidateBind(r) ==
  /\ req[r].kind = "validate" /\ req[r].pc = "bind"
  /\ \/ /\ LET k == req[r].lic.key
               doc == bindToHWID(req[r].lic, req[r].hwid, now)
               paths == modifiedPaths(req[r].lic, doc, {})
           IN /\ licenses' = [licenses EXCEPT ![k] = save(licenses[k], doc, paths)]
              /\ req' = [req EXCEPT ![r].lic = doc, ![r].didBind = TRUE, ![r].pc = "sessionSave"]
        /\ UNCHANGED faults
     \/ Throw(r) /\ UNCHANGED licenses
  /\ UNCHANGED <<now, sessions, audit, completedBind, jwtExpiry, limiter, env>>

\* an issuance that would revoke the earlier sessions of the key
ValidateSessionSave_SingleSession(r) ==
  /\ req[r].kind = "validate" /\ req[r].pc = "sessionSave"
  /\ \/ /\ LET token == jwtSign(sessionPayload(req[r].lic, req[r].key, req[r].hwid, now),
                                jwtExpiry)
               earlier == [i \in DOMAIN sessions |->
                             IF sessions[i].licenseKey = req[r].key /\ sessions[i].status = "active"
                               THEN [sessions[i] EXCEPT !.status = "revoked"]
                               ELSE sessions[i]]
           IN /\ sessions' = Append(earlier,
                                    NewSession(token, req[r].key, req[r].hwid, req[r].ip, now))
              /\ req' = [req EXCEPT ![r].token = token, ![r].sid = Len(sessions) + 1,
                                    ![r].didSave = TRUE, ![r].pc = "auditSuccess"]
        /\ UNCHANGED faults
     \/ Throw(r) /\ UNCHANGED sessions
  /\ UNCHANGED <<now, licenses, audit, completedBind, jwtExpiry, limiter, env>>

\* jwt.sign(...), new Session(...).save()
ValidateSessionSave(r) ==
  /\ req[r].kind = "validate" /\ req[r].pc = "sessionSave"
  /\ \/ /\ LET token == jwtSign(sessionPayload(req[r].lic, req[r].key, req[r].hwid, now),
                                jwtExpiry)
           IN /\ sessions' = Append(sessions,
                                    NewSession(token, req[r].key, req[r].hwid, req[r].ip, now))
              /\ req' = [req EXCEPT ![r].token = token, ![r].sid = Len(sessions) + 1,
                                    ![r].didSave = TRUE, ![r].pc = "auditSuccess"]
        /\ UNCHANGED faults
     \/ Throw(r) /\ UNCHANGED sessions
  /\ UNCHANGED <<now, licenses, audit, completedBind, jwtExpiry, limiter, env>>

\* AuditLog.logEvent('key_validation_success'), res.json({success: true, ...})
ValidateAuditSuccess(r) ==
  /\ req[r].kind = "validate" /\ req[r].pc = "auditSuccess"
  /\ \/ /\ logEventAccepts("key_validation_success")
        /\ audit' = Append(audit, AuditEvent("key_validation_success", "info", r, "none"))
        /\ req' = [req EXCEPT ![r].pc = "done", ![r].result = "success",
                              ![r].issued = req[r].token]
        /\ completedBind' = IF req[r].didBind THEN req[r].hwid ELSE completedBind
        /\ UNCHANGED faults
     \/ Throw(r) /\ UNCHANGED <<audit, completedBind>>
  /\ UNCHANGED <<now, licenses, sessions, jwtExpiry, limiter, env>>

failureSeverity(reason) ==
  CASE reason = "not_found" -> "warning"
    [] reason = "banned" -> "critical"
    [] reason = "suspended" -> "warning"
    [] reason = "expired" -> "info"
    [] reason = "hwid_mismatch" -> "critical"
    [] OTHER -> "error"

\* a failure branch that answers without writing its audit event
ValidateAuditFail_Silent(r) ==
  /\ req[r].kind = "validate" /\ req[r].pc = "auditFail"
  /\ req' = [req EXCEPT ![r].pc = "done", ![r].result = req[r].reason]
  /\ UNCHANGED <<now, licenses, sessions, audit, faults, completedBind, jwtExpiry, limiter, env>>

\* AuditLog.logEvent('key_validation_failed'), res.status(...).json({reason})
ValidateAuditFail(r) ==
  /\ req[r].kind = "validate" /\ req[r].pc = "auditFail"
  /\ \/ /\ logEventAccepts("key_validation_failed")
        /\ audit' = Append(audit, AuditEvent("key_validation_failed",
                                             failureSeverity(req[r].reason), r, req[r].reason))
        /\ req' = [req EXCEPT ![r].pc = "done", ![r].result = req[r].reason]
        /\ UNCHANGED faults
     \/ Throw(r) /\ UNCHANGED audit
  /\ UNCHANGED <<now, licenses, sessions, completedBind, jwtExpiry, limiter, env>>

\* the catch block: logEvent('key_validation_failed') and the 500 response; the
\* logEvent is awaited outside any try, so its rejection leaves no response
ValidateCatch(r) ==
  /\ req[r].kind = "validate" /\ req[r].pc = "catch"
  /\ \/ /\ logEventAccepts("key_validation_failed")
        /\ audit' = Append(audit, AuditEvent("key_validation_failed", "error", r, "server_error"))
        /\ req' = [req EXCEPT ![r].pc = "done", ![r].result = "server_error"]
        /\ UNCHANGED faults
     \/ /\ CanFail
        /\ faults' = faults + 1
        /\ req' = [req EXCEPT ![r].pc = "hung"]
        /\ UNCHANGED audit
  /\ UNCHANGED <<now, licenses, sessions, completedBind, jwtExpiry, limiter, env>>

\* The catch block entered because the store failed: the audit log is kept in
\* the same store, and the outage that rejected the operation rejects the
\* catch block's logEvent as well.
ValidateCatchOutage(r) ==
  /\ req[r].kind = "validate" /\ req[r].pc = "catch" /\ req[r].failedAt = "store"
  /\ req' = [req EXCEPT ![r].pc = "hung"]
  /\ UNCHANGED <<now, licenses, sessions, audit, faults, completedBind, jwtExpiry,
                 limiter, env>>

ValidateStep(r) ==
  \/ ValidateIncrement(r)
  \/ ValidateBind(r)
  \/ ValidateSessionSave(r)
  \/ ValidateAuditSuccess(r)
  \/ ValidateAuditFail(r)
  \/ ValidateCatch(r)

\* ------------------------------- the middleware chain of POST /validate-key
\* The limits of the chain, scaled down: keyValidationLimiter admits 100 calls
\* an hour, generalLimiter 1000 calls a quarter of an hour, and the detector
\* tolerates 50 failures an hour.
KeyLimitMax == 1
GeneralLimitMax == 2
SuspiciousThreshold == 1

\* express-validator's checks of validateKeyRequest.  The key pattern
\* KEY-XXXX-XXXX-XXXX-XXXX is scaled to the prefix K and one upper-case
\* character; a hwid of 10 to 128 characters is one of HWIDs, the hwid "H" is
\* too short; a timestamp within five minutes of the server's clock is one
\* taken at the same clock reading.
matchesKeyPattern(key) == Len(key) = 2 /\ key[1] = "K" /\ key[2] \in {"A", "Z"}
hwidIsLength(hwid) == hwid \in HWIDs
timestampInWindow(ts, t) == ts = t
validationErrorsEmpty(rec, t) ==
  matchesKeyPattern(rec.key) /\ hwidIsLength(rec.hwid) /\ timestampInWindow(rec.timestamp, t)

\* a handleValidationErrors that calls next() whatever the validators found
handleValidationErrors_PassAll(rec, t) == [rec EXCEPT !.checkedAt = t, !.pc = "find"]

\* validateKeyRequest, handleValidationErrors and verifySignature (the request
\* carries no signature), run synchronously once the detector has called
\* next(): 400 validation_failed, or on to the handler's License.findByKey
handleValidationErrors(rec, t) ==
  IF validationErrorsEmpty(rec, t)
    THEN [rec EXCEPT !.checkedAt = t, !.pc = "find"]
    ELSE [rec EXCEPT !.checkedAt = t, !.pc = "done", !.result = "validation_failed"]

\* the detector is switched off in production when ALLOWED_IPS is '*'
detectorSkipped == env.NODE_ENV = "production" /\ env.ALLOWED_IPS = "*"

\* the detector's query: the failure events of the address in the trailing
\* hour, which are those logged at the current clock reading
countRecentAttempts(ip, t) ==
  Cardinality({i \in DOMAIN audit :
                 /\ audit[i].ipAddress = ip
                 /\ t - audit[i].timestamp < 1
                 /\ audit[i].eventType \in {"key_validation_failed", "session_validation_failed"}})

\* The request arrives: generalLimiter counts it, then keyValidationLimiter,
\* both in memory; a limiter whose count passes its maximum answers 429 (the
\* library sets the Retry-After header), generalLimiter with its message,
\* keyValidationLimiter through its handler, which first logs the event.
GateArrive(r, key, hwid, ts, ip) ==
  /\ CanStart(r)
  /\ LET arrived == [IdleReq EXCEPT !.kind = "validate", !.key = key, !.hwid = hwid,
                                    !.ip = ip, !.timestamp = ts,
                                    !.sawBind = completedBind,
                                    !.overLimit = limiter.key[ip] >= KeyLimitMax]
         g == limiter.general[ip] + 1
         k == limiter.key[ip] + 1
     IN IF g > GeneralLimitMax
          THEN /\ limiter' = [limiter EXCEPT !.general[ip] = g]
               /\ req' = [req EXCEPT ![r] = [arrived EXCEPT
                            !.pc = "done", !.result = "rate_limit_exceeded",
                            !.limitedBy = "general", !.retryAfter = TRUE]]
          ELSE /\ limiter' = [limiter EXCEPT !.general[ip] = g, !.key[ip] = k]
               /\ req' = [req EXCEPT ![r] =
                            IF k > KeyLimitMax
                              THEN [arrived EXCEPT !.pc = "limitAudit", !.limitedBy = "key"]
                              ELSE IF detectorSkipped
                                     THEN handleValidationErrors(
                                            [arrived EXCEPT !.suspect =
                                               countRecentAttempts(ip, now) > SuspiciousThreshold],
                                            now)
                                     ELSE [arrived EXCEPT !.pc = "count"]]
  /\ UNCHANGED <<now, licenses, sessions, audit, faults, completedBind, jwtExpiry, env>>

\* keyValidationLimiter's handler: logEvent inside its own try/catch, then 429
GateLimitAudit(r) ==
  /\ req[r].kind = "validate" /\ req[r].pc = "limitAudit"
  /\ \/ /\ audit' = Append(audit, AuditEvent("rate_limit_exceeded", "warning", r,
                                             "rate_limit_exceeded"))
        /\ UNCHANGED faults
     \/ /\ CanFail
        /\ faults' = faults + 1
        /\ UNCHANGED audit
  /\ req' = [req EXCEPT ![r].pc = "done", ![r].result = "rate_limit_exceeded",
                        ![r].retryAfter = TRUE]
  /\ UNCHANGED <<now, licenses, sessions, completedBind, jwtExpiry, limiter, env>>

\* detectSuspiciousActivity: the count query resolves; a failed query is
\* caught and the request goes on
GateCount(r) ==
  /\ req[r].kind = "validate" /\ req[r].pc = "count"
  /\ \/ /\ LET n == countRecentAttempts(req[r].ip, now)
               seen == [req[r] EXCEPT !.recentAttempts = n,
                                      !.suspect = n > SuspiciousThreshold]
           IN req' = [req EXCEPT ![r] =
                        IF n > SuspiciousThreshold
                          THEN [seen EXCEPT !.pc = "suspiciousAudit"]
                          ELSE handleValidationErrors(seen, now)]
        /\ UNCHANGED faults
     \/ /\ CanFail
        /\ faults' = faults + 1
        /\ req' = [req EXCEPT ![r] = handleValidationErrors(req[r], now)]
  /\ UNCHANGED <<now, licenses, sessions, audit, completedBind, jwtExpiry, limiter, env>>

\* detectSuspiciousActivity: the suspicious_activity event is logged; then
\* next() in production and 429 otherwise; a failed write is caught and the
\* request goes on
GateSuspiciousAudit(r) ==
  /\ req[r].kind = "validate" /\ req[r].pc = "suspiciousAudit"
  /\ \/ /\ audit' = Append(audit, AuditEvent("suspicious_activity", "critical", r,
                                             "suspicious_activity"))
        /\ req' = [req EXCEPT ![r] =
                     IF env.NODE_ENV = "production"
                       THEN handleValidationErrors(req[r], now)
                       ELSE [req[r] EXCEPT !.pc = "done", !.result = "suspicious_activity"]]
        /\ UNCHANGED faults
     \/ /\ CanFail
        /\ faults' = faults + 1
        /\ req' = [req EXCEPT ![r] = handleValidationErrors(req[r], now)]
        /\ UNCHANGED audit
  /\ UNCHANGED <<now, licenses, sessions, completedBind, jwtExpiry, limiter, env>>

\* the handler's License.findByKey(key) for a request the chain let through
GateFind(r) ==
  /\ req[r].kind = "validate" /\ req[r].pc = "find"
  /\ LET k == findByKey(req[r].key)
         hit == k \in DOMAIN licenses
     IN \/ /\ req' = [req EXCEPT ![r].found = hit,
                                 ![r].lic = IF hit THEN licenses[k] ELSE NoLicense,
                                 ![r].pc = IF hit THEN "increment" ELSE "auditFail",
                                 ![r].reason = IF hit THEN "none" ELSE "not_found"]
           /\ UNCHANGED faults
        \/ /\ CanFail
           /\ faults' = faults + 1
           /\ req' = [req EXCEPT ![r].pc = "catch", ![r].failedAt = "store"]
  /\ UNCHANGED <<now, licenses, sessions, audit, completedBind, jwtExpiry, limiter, env>>

GateStep(r) ==
  \/ GateLimitAudit(r)
  \/ GateCount(r)
  \/ GateSuspiciousAudit(r)
  \/ GateFind(r)

\* The clock moves on by half a day or more: the windows of both limiters
\* (an hour, a quarter of an hour) have passed and their counters start again.
WindowElapse(t) ==
  /\ t > now
  /\ now' = t
  /\ limiter' = NoHits
  /\ UNCHANGED <<licenses, sessions, audit, req, faults, completedBind, jwtExpiry, env>>

\* ------------------------------------------------------ POST /check-session
ForgedToken ==
  [licenseKey |-> KeyA, hwid |-> "H1", licenseType |-> "basic", features |-> {"lobby_manager"},
   iat |-> 0, exp |-> 1000, sig |-> "forged"]
MalformedToken == [NoToken EXCEPT !.sig = "malformed"]

\* signed tokens exist only as the server minted them
MintedTokens == {sessions[i].sessionToken : i \in DOMAIN sessions}
PresentableTokens == MintedTokens \cup {ForgedToken, MalformedToken}

Observe(sid, t) ==
  IF sid = 0 THEN NoObs
  ELSE [exists |-> TRUE, status |-> sessions[sid].status,
        expired |-> sessionIsExpired(sessions[sid], t), hwid |-> sessions[sid].hwid]

\* the handlers whose catch block answers without awaiting anything
ThrowTo(r, reason) ==
  /\ CanFail
  /\ faults' = faults + 1
  /\ req' = [req EXCEPT ![r].pc = "done", ![r].result = reason,
                        ![r].failedAt = IF req[r].pc \in AuditPcs THEN "audit" ELSE "store"]

\* the document after session.updateActivity(ip) has assigned its fields
updateActivity(doc, ip, t) ==
  [doc EXCEPT !.lastActivity = t, !.lastIP = IF ip # NULL THEN ip ELSE @]

\* the document after session.revoke() has assigned its field
revoke(doc) == [doc EXCEPT !.status = "revoked"]

\* the catch block's test of error.name
checkCatch(errorName) == IF errorName = "JsonWebTokenError" THEN "token_invalid" ELSE "server_error"

\* the request reaches the handler, which calls jwt.verify(sessionToken, JWT_SECRET)
CheckStart(r, token, hwid, ip) ==
  /\ CanStart(r)
  /\ LET v == jwtVerify(token, now)
     IN req' = [req EXCEPT ![r] = [IdleReq EXCEPT
                    !.kind = "check", !.token = token, !.hwid = hwid, !.ip = ip,
                    !.verified = v,
                    !.pc = IF v = "ok" THEN "find" ELSE "done",
                    !.result = IF v = "ok" THEN "none" ELSE checkCatch(v)]]
  /\ UNCHANGED <<now, licenses, sessions, audit, faults, completedBind, jwtExpiry, limiter, env>>

\* Session.findByToken, then isActive() and the hwid comparison on the document
CheckFind(r) ==
  /\ req[r].kind = "check" /\ req[r].pc = "find"
  /\ \/ /\ LET sid == findByToken(req[r].token)
           IN req' = [req EXCEPT
                  ![r].sid = sid,
                  ![r].sess = IF sid = 0 THEN NoSession ELSE sessions[sid],
                  ![r].obs = Observe(sid, now),
                  ![r].pc = CASE sid = 0 -> "auditReject"
                              [] ~sessionIsActive(sessions[sid], now) -> "auditReject"
                              [] sessions[sid].hwid # req[r].hwid -> "auditReject"
                              [] OTHER -> "update",
                  ![r].reason = CASE sid = 0 -> "session_invalid"
                                  [] ~sessionIsActive(sessions[sid], now) -> "session_invalid"
                                  [] sessions[sid].hwid # req[r].hwid -> "hwid_mismatch"
                                  [] OTHER -> "none"]
        /\ UNCHANGED faults
     \/ ThrowTo(r, "server_error")
  /\ UNCHANGED <<now, licenses, sessions, audit, completedBind, jwtExpiry, limiter, env>>

\* AuditLog.logEvent('session_validation_failed'), res.json({valid: false, reason})
CheckAuditReject(r) ==
  /\ req[r].kind = "check" /\ req[r].pc = "auditReject"
  /\ IF logEventAccepts("session_validation_failed")
       THEN \/ /\ audit' = Append(audit, AuditEvent("session_validation_failed",
                     IF req[r].reason = "hwid_mismatch" THEN "critical" ELSE "warning",
                     r, req[r].reason))
               /\ req' = [req EXCEPT ![r].pc = "done", ![r].result = req[r].reason]
               /\ UNCHANGED faults
            \/ ThrowTo(r, "server_error") /\ UNCHANGED audit
       ELSE \* the rejected save is caught as a ValidationError
            /\ req' = [req EXCEPT ![r].pc = "done", ![r].result = "server_error"]
            /\ UNCHANGED <<audit, faults>>
  /\ UNCHANGED <<now, licenses, sessions, completedBind, jwtExpiry, limiter, env>>

\* session.updateActivity(ip); the save of a deleted record is rejected
CheckUpdate(r) ==
  /\ req[r].kind = "check" /\ req[r].pc = "update"
  /\ \/ /\ sessions[req[r].sid].present
        /\ LET doc == updateActivity(req[r].sess, req[r].ip, now)
               paths == modifiedPaths(req[r].sess, doc, {})
           IN /\ sessions' = [sessions EXCEPT ![req[r].sid] = save(@, doc, paths)]
              /\ req' = [req EXCEPT ![r].sess = doc, ![r].pc = "auditValidated",
                                    ![r].usedAt = now,
                                    ![r].staleWrite = sessions[req[r].sid].status # req[r].sess.status]
        /\ UNCHANGED faults
     \/ /\ ~sessions[req[r].sid].present
        /\ req' = [req EXCEPT ![r].pc = "done", ![r].result = "server_error"]
        /\ UNCHANGED <<sessions, faults>>
     \/ ThrowTo(r, "server_error") /\ UNCHANGED sessions
  /\ UNCHANGED <<now, licenses, audit, completedBind, jwtExpiry, limiter, env>>

\* AuditLog.logEvent('session_validated'), res.json({valid: true, ...})
CheckAuditValidated(r) ==
  /\ req[r].kind = "check" /\ req[r].pc = "auditValidated"
  /\ \/ /\ logEventAccepts("session_validated")
        /\ audit' = Append(audit, AuditEvent("session_validated", "info", r, "none"))
        /\ req' = [req EXCEPT ![r].pc = "done", ![r].result = "valid"]
        /\ UNCHANGED faults
     \/ ThrowTo(r, "server_error") /\ UNCHANGED audit
  /\ UNCHANGED <<now, licenses, sessions, completedBind, jwtExpiry, limiter, env>>

CheckStep(r) ==
  \/ CheckFind(r)
  \/ CheckAuditReject(r)
  \/ CheckUpdate(r)
  \/ CheckAuditValidated(r)

\* ------------------------------------------- verifySession and POST /logout
\* kind "protected": a route behind verifySession; kind "logout": POST /logout
MwKind(r) == req[r].kind \in {"protected", "logout"}

\* the catch block's test of error.name
mwCatch(errorName) ==
  IF errorName = "JsonWebTokenError" THEN "token_invalid" ELSE "verification_error"

\* the request reaches verifySession, which calls jwt.verify(token, JWT_SECRET)
MwStart(r, kind, token, ip) ==
  /\ CanStart(r)
  /\ kind \in {"protected", "logout"}
  /\ LET v == jwtVerify(token, now)
     IN req' = [req EXCEPT ![r] = [IdleReq EXCEPT
                    !.kind = kind, !.token = token, !.ip = ip, !.verified = v,
                    !.pc = IF v = "ok" THEN "find" ELSE "done",
                    !.result = IF v = "ok" THEN "none" ELSE mwCatch(v)]]
  /\ UNCHANGED <<now, licenses, sessions, audit, faults, completedBind, jwtExpiry, limiter, env>>

\* Session.findByToken, then isActive() on the document
MwFind(r) ==
  /\ MwKind(r) /\ req[r].pc = "find"
  /\ \/ /\ LET sid == findByToken(req[r].token)
               ok == IF sid = 0 THEN FALSE ELSE sessionIsActive(sessions[sid], now)
           IN req' = [req EXCEPT ![r].sid = sid,
                                 ![r].sess = IF sid = 0 THEN NoSession ELSE sessions[sid],
                                 ![r].obs = Observe(sid, now),
                                 ![r].pc = IF ok THEN "update" ELSE "auditReject",
                                 ![r].reason = IF ok THEN "none" ELSE "session_invalid"]
        /\ UNCHANGED faults
     \/ ThrowTo(r, "verification_error")
  /\ UNCHANGED <<now, licenses, sessions, audit, completedBind, jwtExpiry, limiter, env>>

\* AuditLog.logEvent('session_validation_failed'), the 401 response
MwAuditReject(r) ==
  /\ MwKind(r) /\ req[r].pc = "auditReject"
  /\ IF logEventAccepts("session_validation_failed")
       THEN \/ /\ audit' = Append(audit, AuditEvent("session_validation_failed", "info",
                                                    r, req[r].reason))
               /\ req' = [req EXCEPT ![r].pc = "done", ![r].result = req[r].reason]
               /\ UNCHANGED faults
            \/ ThrowTo(r, "verification_error") /\ UNCHANGED audit
       ELSE /\ req' = [req EXCEPT ![r].pc = "done", ![r].result = "verification_error"]
            /\ UNCHANGED <<audit, faults>>
  /\ UNCHANGED <<now, licenses, sessions, completedBind, jwtExpiry, limiter, env>>

\* session.updateActivity(req.ip), next()
MwUpdate(r) ==
  /\ MwKind(r) /\ req[r].pc = "update"
  /\ \/ /\ sessions[req[r].sid].present
        /\ LET doc == updateActivity(req[r].sess, req[r].ip, now)
               paths == modifiedPaths(req[r].sess, doc, {})
           IN /\ sessions' = [sessions EXCEPT ![req[r].sid] = save(@, doc, paths)]
              /\ req' = [req EXCEPT
                     ![r].sess = doc,
                     ![r].usedAt = now,
                     ![r].staleWrite = sessions[req[r].sid].status # req[r].sess.status,
                     ![r].pc = IF req[r].kind = "logout" THEN "revoke" ELSE "done",
                     ![r].result = IF req[r].kind = "logout" THEN "none" ELSE "passed"]
        /\ UNCHANGED faults
     \/ /\ ~sessions[req[r].sid].present
        /\ req' = [req EXCEPT ![r].pc = "done", ![r].result = "verification_error"]
        /\ UNCHANGED <<sessions, faults>>
     \/ ThrowTo(r, "verification_error") /\ UNCHANGED sessions
  /\ UNCHANGED <<now, licenses, audit, completedBind, jwtExpiry, limiter, env>>

\* a logout that revokes every session of the license, as a ban does
LogoutRevoke_AllOfKey(r) ==
  /\ req[r].kind = "logout" /\ req[r].pc = "revoke"
  /\ \/ /\ sessions[req[r].sid].present
        /\ LET doc == revoke(req[r].sess)
           IN /\ sessions' = [i \in DOMAIN sessions |->
                                IF sessions[i].licenseKey = doc.licenseKey
                                  THEN [sessions[i] EXCEPT !.status = "revoked"]
                                  ELSE sessions[i]]
              /\ req' = [req EXCEPT ![r].sess = doc, ![r].pc = "auditRevoked"]
        /\ UNCHANGED faults
     \/ /\ ~sessions[req[r].sid].present
        /\ req' = [req EXCEPT ![r].pc = "done", ![r].result = "server_error"]
        /\ UNCHANGED <<sessions, faults>>
     \/ ThrowTo(r, "server_error") /\ UNCHANGED sessions
  /\ UNCHANGED <<now, licenses, audit, completedBind, jwtExpiry, limiter, env>>

\* logout: session.revoke()
LogoutRevoke(r) ==
  /\ req[r].kind = "logout" /\ req[r].pc = "revoke"
  /\ \/ /\ sessions[req[r].sid].present
        /\ LET doc == revoke(req[r].sess)
               paths == modifiedPaths(req[r].sess, doc, {})
           IN /\ sessions' = [sessions EXCEPT ![req[r].sid] = save(@, doc, paths)]
              /\ req' = [req EXCEPT ![r].sess = doc, ![r].pc = "auditRevoked"]
        /\ UNCHANGED faults
     \/ /\ ~sessions[req[r].sid].present
        /\ req' = [req EXCEPT ![r].pc = "done", ![r].result = "server_error"]
        /\ UNCHANGED <<sessions, faults>>
     \/ ThrowTo(r, "server_error") /\ UNCHANGED sessions
  /\ UNCHANGED <<now, licenses, audit, completedBind, jwtExpiry, limiter, env>>

\* logout: AuditLog.logEvent('session_revoked'), res.json({success: true})
LogoutAudit(r) ==
  /\ req[r].kind = "logout" /\ req[r].pc = "auditRevoked"
  /\ \/ /\ logEventAccepts("session_revoked")
        /\ audit' = Append(audit, AuditEvent("session_revoked", "info", r, "none"))
        /\ req' = [req EXCEPT ![r].pc = "done", ![r].result = "success"]
        /\ UNCHANGED faults
     \/ ThrowTo(r, "server_error") /\ UNCHANGED audit
  /\ UNCHANGED <<now, licenses, sessions, completedBind, jwtExpiry, limiter, env>>

MwStep(r) ==
  \/ MwFind(r)
  \/ MwAuditReject(r)
  \/ MwUpdate(r)
  \/ LogoutRevoke(r)
  \/ LogoutAudit(r)

\* ------------------------------------------- PATCH /licenses/:key/status
AdminStatuses == {"active", "banned", "suspended"}

\* process.env.ADMIN_API_KEY, and what a caller may send in its place
ADMIN_API_KEY == "admin-key"
ApiKeys == {NULL, "guess", ADMIN_API_KEY}

\* a requireAdminAuth that is content with any key
requireAdminAuth_AnyKey(apiKey) == apiKey # NULL

\* requireAdminAuth lets the request through
requireAdminAuth(apiKey) == apiKey # NULL /\ apiKey = ADMIN_API_KEY

\* The request passes requireAdminAuth, which answers 401 unless the header
\* holds the configured key, and reaches the handler, which calls
\* License.findByKey(key).
AdminArrive(r, key, status, apiKey) ==
  /\ CanStart(r)
  /\ status \in AdminStatuses
  /\ LET k == findByKey(key)
         hit == k \in DOMAIN licenses
         arrived == [IdleReq EXCEPT !.kind = "admin", !.key = key, !.newStatus = status,
                                    !.apiKey = apiKey]
     IN IF ~requireAdminAuth(apiKey)
          THEN /\ req' = [req EXCEPT ![r] = [arrived EXCEPT
                             !.pc = "done", !.result = "admin_auth_required"]]
               /\ UNCHANGED faults
          ELSE \/ /\ req' = [req EXCEPT ![r] = [arrived EXCEPT
                                !.found = hit,
                                !.lic = IF hit THEN licenses[k] ELSE NoLicense,
                                !.oldStatus = IF hit THEN licenses[k].status ELSE NULL,
                                !.pc = IF hit THEN "save" ELSE "done",
                                !.result = IF hit THEN "none" ELSE "not_found"]]
                  /\ UNCHANGED faults
               \/ /\ CanFail
                  /\ faults' = faults + 1
                  /\ req' = [req EXCEPT ![r] = [arrived EXCEPT
                                !.pc = "done", !.result = "server_error"]]
  /\ UNCHANGED <<now, licenses, sessions, audit, completedBind, jwtExpiry, limiter, env>>

\* the status change of an administrator, who sends the configured key
AdminStart(r, key, status) == AdminArrive(r, key, status, ADMIN_API_KEY)

\* license.status = status; license.save()
AdminSave(r) ==
  /\ req[r].kind = "admin" /\ req[r].pc = "save"
  /\ \/ /\ LET k == req[r].lic.key
               doc == [req[r].lic EXCEPT !.status = req[r].newStatus]
               paths == modifiedPaths(req[r].lic, doc, {})
           IN /\ licenses' = [licenses EXCEPT ![k] = save(licenses[k], doc, paths)]
              /\ req' = [req EXCEPT ![r].lic = doc,
                                    ![r].pc = IF req[r].newStatus \in {"banned", "suspended"}
                                                THEN "revoke" ELSE "audit"]
        /\ UNCHANGED faults
     \/ ThrowTo(r, "server_error") /\ UNCHANGED licenses
  /\ UNCHANGED <<now, sessions, audit, completedBind, jwtExpiry, limiter, env>>

\* Session.updateMany({licenseKey: key, status: 'active'}, {status: 'revoked'})
updateManyRevoke(key) ==
  [i \in DOMAIN sessions |->
     IF sessions[i].present /\ sessions[i].licenseKey = key /\ sessions[i].status = "active"
       THEN [sessions[i] EXCEPT !.status = "revoked"] ELSE sessions[i]]

AdminRevoke(r) ==
  /\ req[r].kind = "admin" /\ req[r].pc = "revoke"
  /\ \/ /\ sessions' = updateManyRevoke(req[r].key)
        /\ req' = [req EXCEPT ![r].pc = "audit"]
        /\ UNCHANGED faults
     \/ ThrowTo(r, "server_error") /\ UNCHANGED sessions
  /\ UNCHANGED <<now, licenses, audit, completedBind, jwtExpiry, limiter, env>>

\* AuditLog.logEvent('admin_action'), res.json({success: true})
AdminAudit(r) ==
  /\ req[r].kind = "admin" /\ req[r].pc = "audit"
  /\ \/ /\ logEventAccepts("admin_action")
        /\ audit' = Append(audit, AuditEvent("admin_action",
                       IF req[r].newStatus = "banned" THEN "critical" ELSE "warning", r, "none"))
        /\ req' = [req EXCEPT ![r].pc = "done", ![r].result = "success"]
        /\ UNCHANGED faults
     \/ ThrowTo(r, "server_error") /\ UNCHANGED audit
  /\ UNCHANGED <<now, licenses, sessions, completedBind, jwtExpiry, limiter, env>>

AdminStep(r) ==
  \/ AdminSave(r)
  \/ AdminRevoke(r)
  \/ AdminAudit(r)

\* --------------------------------------------------------- POST /cleanup
\* Session.cleanupExpired: deleteMany of the expired records
cleanupExpired(t) ==
  [i \in DOMAIN sessions |->
     IF sessions[i].present /\ (sessions[i].expiresAt < t \/ sessions[i].status = "expired")
       THEN [sessions[i] EXCEPT !.present = FALSE] ELSE sessions[i]]

\* the request reaches the handler, which calls Session.cleanupExpired()
CleanupStart(r) ==
  /\ CanStart(r)
  /\ LET arrived == [IdleReq EXCEPT !.kind = "cleanup"]
     IN \/ /\ sessions' = cleanupExpired(now)
           /\ req' = [req EXCEPT ![r] = [arrived EXCEPT !.pc = "audit"]]
           /\ UNCHANGED faults
        \/ /\ CanFail
           /\ faults' = faults + 1
           /\ req' = [req EXCEPT ![r] = [arrived EXCEPT !.pc = "done", !.result = "server_error"]]
           /\ UNCHANGED sessions
  /\ UNCHANGED <<now, licenses, audit, completedBind, jwtExpiry, limiter, env>>

\* a cleanup that would also sweep the audit log before it logs itself
CleanupAudit_Sweeping(r) ==
  /\ req[r].kind = "cleanup" /\ req[r].pc = "audit"
  /\ \/ /\ logEventAccepts("admin_action")
        /\ audit' = <<AuditEvent("admin_action", "info", r, "cleanup")>>
        /\ req' = [req EXCEPT ![r].pc = "done", ![r].result = "success"]
        /\ UNCHANGED faults
     \/ ThrowTo(r, "server_error") /\ UNCHANGED audit
  /\ UNCHANGED <<now, licenses, sessions, completedBind, jwtExpiry, limiter, env>>

\* AuditLog.logEvent('admin_action'), res.json({success: true})
CleanupAudit(r) ==
  /\ req[r].kind = "cleanup" /\ req[r].pc = "audit"
  /\ \/ /\ logEventAccepts("admin_action")
        /\ audit' = Append(audit, AuditEvent("admin_action", "info", r, "cleanup"))
        /\ req' = [req EXCEPT ![r].pc = "done", ![r].result = "success"]
        /\ UNCHANGED faults
     \/ ThrowTo(r, "server_error") /\ UNCHANGED audit
  /\ UNCHANGED <<now, licenses, sessions, completedBind, jwtExpiry, limiter, env>>

CleanupStep(r) == CleanupAudit(r)

\* ------------------------------------------------------------ specification
\* process.env.JWT_EXPIRY || '7d', and a deployment that sets it longer
JwtExpiryDefault == SessionDuration
JwtExpiryChoices == {JwtExpiryDefault, 2 * SessionDuration}

Init ==
  /\ now = 0
  /\ licenses = [k \in {KeyA} |-> NewLicense(k, 0, LicenseLifetime)]
  /\ sessions = <<>>
  /\ audit = <<>>
  /\ req = [r \in Reqs |-> IdleReq]
  /\ faults = 0
  /\ completedBind = NULL
  /\ jwtExpiry = JwtExpiryDefault
  /\ limiter = NoHits
  /\ env = DefaultEnv

\* concurrent validations of one key
NextBind ==
  \/ \E r \in Reqs, h \in HWIDs : ValidateStart(r, KeyA, h, "ip1", FALSE)
  \/ \E r \in Reqs : ValidateStep(r)

SpecBind == Init /\ [][NextBind]_vars

\* validations and admin status changes of one key, concurrently
NextBan ==
  \/ \E r \in Reqs : ValidateStart(r, KeyA, "H1", "ip1", FALSE)
  \/ \E r \in Reqs : ValidateStep(r)
  \/ \E r \in Reqs, st \in AdminStatuses : AdminStart(r, KeyA, st)
  \/ \E r \in Reqs : AdminStep(r)

SpecBan == Init /\ [][NextBan]_vars

\* the same requests one at a time, the admin spelling the key as the URL allows
NextBanSeq ==
  \/ \E r \in Reqs : Quiescent /\ ValidateStart(r, KeyA, "H1", "ip1", FALSE)
  \/ \E r \in Reqs : ValidateStep(r)
  \/ \E r \in Reqs, k \in AdminKeys, st \in AdminStatuses : Quiescent /\ AdminStart(r, k, st)
  \/ \E r \in Reqs : AdminStep(r)

SpecBanSeq == Init /\ [][NextBanSeq]_vars

\* The state after one validate-key request (KeyA, H1, from ip1) has succeeded
\* at time 0: the license is bound and its session is active.
BoundLicense ==
  bindToHWID(incrementAttempts(NewLicense(KeyA, 0, LicenseLifetime), "ip1", FALSE, 0), "H1", 0)

InitSession ==
  /\ now = 0
  /\ jwtExpiry \in JwtExpiryChoices
  /\ limiter = NoHits
  /\ env = DefaultEnv
  /\ licenses = [k \in {KeyA} |-> BoundLicense]
  /\ sessions = <<NewSession(jwtSign(sessionPayload(BoundLicense, KeyA, "H1", 0), jwtExpiry),
                             KeyA, "H1", "ip1", 0)>>
  /\ audit = <<AuditEvent("key_validation_success", "info", 0, "none")>>
  /\ req = [r \in Reqs |-> IdleReq]
  /\ faults = MaxFaults
  /\ completedBind = "H1"

SessionReqs == 1..MaxSessionReqs

\* sessions in use: session checks, protected routes, logout, ban and cleanup
NextSession ==
  \/ \E r \in SessionReqs, t \in PresentableTokens, h \in HWIDs :
        CheckStart(r, t, h, "ip1")
  \/ \E r \in Reqs : CheckStep(r)
  \/ \E r \in SessionReqs, k \in {"protected", "logout"}, t \in PresentableTokens :
        MwStart(r, k, t, "ip2")
  \/ \E r \in Reqs : MwStep(r)
  \/ \E r \in SessionReqs : AdminStart(r, KeyA, "banned")
  \/ \E r \in Reqs : AdminStep(r)
  \/ \E r \in SessionReqs : CleanupStart(r)
  \/ \E r \in Reqs : CleanupStep(r)
  \/ \E t \in Times : Tick(t)

SpecSession == InitSession /\ [][NextSession]_vars

\* The whole life of a session: validations, session checks, protected routes,
\* logout and admin status changes (ban, and back to active) of one key, all
\* within one clock reading.  The run starts either from the fresh license or
\* from the state after a first successful validation.
InitLifecycle ==
  /\ now = 0
  /\ jwtExpiry = JwtExpiryDefault
  /\ limiter = NoHits
  /\ env = DefaultEnv
  /\ audit = <<>>
  /\ req = [r \in Reqs |-> IdleReq]
  /\ faults = 0
  /\ \/ /\ licenses = [k \in {KeyA} |-> NewLicense(k, 0, LicenseLifetime)]
        /\ sessions = <<>>
        /\ completedBind = NULL
     \/ /\ licenses = [k \in {KeyA} |-> BoundLicense]
        /\ sessions = <<NewSession(jwtSign(sessionPayload(BoundLicense, KeyA, "H1", 0), jwtExpiry),
                             KeyA, "H1", "ip1", 0)>>
        /\ completedBind = "H1"

NextLifecycle ==
  \/ \E r \in SessionReqs : ValidateStart(r, KeyA, "H1", "ip1", FALSE)
  \/ \E r \in Reqs : ValidateStep(r)
  \/ \E r \in SessionReqs, t \in MintedTokens : CheckStart(r, t, "H1", "ip1")
  \/ \E r \in Reqs : CheckStep(r)
  \/ \E r \in SessionReqs, k \in {"protected", "logout"}, t \in MintedTokens : MwStart(r, k, t, "ip2")
  \/ \E r \in Reqs : MwStep(r)
  \/ \E r \in SessionReqs, st \in {"active", "banned"} : AdminStart(r, KeyA, st)
  \/ \E r \in Reqs : AdminStep(r)

SpecLifecycle == InitLifecycle /\ [][NextLifecycle]_vars

\* Attempt counting: validations of one key, typed or from the stored key file,
\* spread over a day, no store or audit operation failing.  The license is
\* bound to H1 and has counted two attempts today.
AttemptTimes == {DayLen - 1, DayLen}

InitAttempts ==
  /\ now = 0
  /\ jwtExpiry = JwtExpiryDefault
  /\ limiter = NoHits
  /\ env = DefaultEnv
  /\ licenses = [k \in {KeyA} |-> [BoundLicense EXCEPT !.attempts = 2]]
  /\ sessions = <<>>
  /\ audit = <<>>
  /\ req = [r \in Reqs |-> IdleReq]
  /\ faults = MaxFaults
  /\ completedBind = "H1"

\* typed keys come from ip1, the stored key file is used from ip2
NextAttempts ==
  \/ \E r \in SessionReqs : ValidateStart(r, KeyA, "H1", "ip1", FALSE)
  \/ \E r \in SessionReqs, h \in HWIDs : ValidateStart(r, KeyA, h, "ip2", TRUE)
  \/ \E r \in Reqs : ValidateIncrement(r)
  \/ \E r \in Reqs : ValidateSessionSave(r)
  \/ \E r \in Reqs : ValidateAuditSuccess(r)
  \/ \E r \in Reqs : ValidateAuditFail(r)
  \/ \E t \in AttemptTimes : Tick(t)

SpecAttempts == InitAttempts /\ [][NextAttempts]_vars

\* The validation policy: validations of an existing and of an unknown key
\* against a license in every combination of status, expiry and binding.  A
\* license is fresh or bound to H1, was given any status by the admin, and is
\* met before, at and after its expiresAt; its earlier sessions are gone.  The
\* second machine is that of the first request, and the unknown key is asked
\* for by the second.
PolicyLicenses ==
  {[l EXCEPT !.status = st] :
     l \in {NewLicense(KeyA, 0, LicenseLifetime), BoundLicense}, st \in AdminStatuses}

PolicyTimes == {0, LicenseLifetime, LicenseLifetime + 1}

InitPolicy ==
  /\ now \in PolicyTimes
  /\ jwtExpiry = JwtExpiryDefault
  /\ limiter = NoHits
  /\ env = DefaultEnv
  /\ \E l \in PolicyLicenses :
       /\ licenses = [k \in {KeyA} |-> l]
       /\ completedBind = l.hwid
  /\ sessions = <<>>
  /\ audit = <<>>
  /\ req = [r \in Reqs |-> IdleReq]
  /\ faults = 0

NextPolicy ==
  \/ \E r \in SessionReqs : ValidateStart(r, KeyA, "H1", "ip1", FALSE)
  \/ ValidateStart(1, KeyA, "H2", "ip1", FALSE)
  \/ ValidateStart(2, KeyZ, "H1", "ip1", FALSE)
  \/ \E r \in Reqs : ValidateStep(r)

SpecPolicy == InitPolicy /\ [][NextPolicy]_vars

\* The middleware chain in front of validate-key, one call from ip1 after
\* another.  The server runs in any of its four configurations; the audit log
\* holds the failures that earlier requests from ip1 have logged at the
\* current clock reading.
GateEnvs == [NODE_ENV : {"development", "production"}, ALLOWED_IPS : {"list", "*"}]

PriorFailure ==
  [eventType |-> "key_validation_failed", severity |-> "warning", by |-> 0,
   reason |-> "not_found", ipAddress |-> "ip1", timestamp |-> 0]

PriorFailures(n) == [i \in 1..n |-> PriorFailure]

\* the good request, one for a key that does not exist, and one malformed in
\* each of key, hwid and timestamp
GoodInput(t) == [key |-> KeyA, hwid |-> "H1", timestamp |-> t]

GateInputs(t) ==
  {GoodInput(t),
   [key |-> KeyZ, hwid |-> "H1", timestamp |-> t],
   [key |-> <<"k", "a">>, hwid |-> "H1", timestamp |-> t],
   [key |-> KeyA, hwid |-> "H", timestamp |-> t],
   [key |-> KeyA, hwid |-> "H1", timestamp |-> t - 1]}

GateTimes == {1}

InitGate ==
  /\ now = 0
  /\ jwtExpiry = JwtExpiryDefault
  /\ limiter = NoHits
  /\ env \in GateEnvs
  /\ licenses = [k \in {KeyA} |-> NewLicense(k, 0, LicenseLifetime)]
  /\ sessions = <<>>
  /\ audit \in {PriorFailures(n) : n \in 0..(SuspiciousThreshold + 1)}
  /\ req = [r \in Reqs |-> IdleReq]
  /\ faults = 0
  /\ completedBind = NULL

NextGate ==
  \/ \E q \in GateInputs(now) : GateArrive(1, q.key, q.hwid, q.timestamp, "ip1")
  \/ \E r \in Reqs \ {1} : Quiescent /\ GateArrive(r, KeyA, "H1", now, "ip1")
  \/ \E r \in Reqs : GateStep(r)
  \/ \E r \in Reqs : ValidateStep(r)
  \/ \E t \in GateTimes : WindowElapse(t)

SpecGate == InitGate /\ [][NextGate]_vars

\* validations of one key while the store may go down
NextOutage ==
  \/ \E r \in SessionReqs, h \in HWIDs : ValidateStart(r, KeyA, h, "ip1", FALSE)
  \/ \E r \in Reqs : ValidateStep(r)
  \/ \E r \in Reqs : ValidateCatchOutage(r)

SpecOutage == Init /\ [][NextOutage]_vars

\* A session that outlives its license.  The license was created at the start
\* of its lifetime and expires at clock reading 1; it was bound at 0 by the
\* validation that issued the session, which lasts until SessionDuration.
OldLicense ==
  bindToHWID(incrementAttempts(NewLicense(KeyA, 1 - LicenseLifetime, LicenseLifetime),
                               "ip1", FALSE, 0), "H1", 0)

OutliveTimes == {1, 2}

InitOutlive ==
  /\ now = 0
  /\ jwtExpiry = JwtExpiryDefault
  /\ limiter = NoHits
  /\ env = DefaultEnv
  /\ licenses = [k \in {KeyA} |-> OldLicense]
  /\ sessions = <<NewSession(jwtSign(sessionPayload(OldLicense, KeyA, "H1", 0), jwtExpiry),
                             KeyA, "H1", "ip1", 0)>>
  /\ audit = <<AuditEvent("key_validation_success", "info", 0, "none")>>
  /\ req = [r \in Reqs |-> IdleReq]
  /\ faults = MaxFaults
  /\ completedBind = "H1"

NextOutlive ==
  \/ \E r \in SessionReqs, t \in MintedTokens, h \in HWIDs : CheckStart(r, t, h, "ip1")
  \/ \E r \in Reqs : CheckStep(r)
  \/ \E r \in SessionReqs, k \in {"protected", "logout"}, t \in MintedTokens :
        MwStart(r, k, t, "ip2")
  \/ \E r \in Reqs : MwStep(r)
  \/ \E r \in SessionReqs : ValidateStart(r, KeyA, "H1", "ip1", FALSE)
  \/ \E r \in Reqs : ValidateIncrement(r)
  \/ \E r \in Reqs : ValidateSessionSave(r)
  \/ \E r \in Reqs : ValidateAuditSuccess(r)
  \/ \E r \in Reqs : ValidateAuditFail(r)
  \/ \E t \in OutliveTimes : Tick(t)

SpecOutlive == InitOutlive /\ [][NextOutlive]_vars

\* Everything that saves a license or a session, while callers with and
\* without the admin key ask for status changes.
NextAdminOnly ==
  \/ \E r \in SessionReqs : ValidateStart(r, KeyA, "H1", "ip1", FALSE)
  \/ \E r \in Reqs : ValidateStep(r)
  \/ \E r \in SessionReqs, t \in MintedTokens : CheckStart(r, t, "H1", "ip1")
  \/ \E r \in Reqs : CheckStep(r)
  \/ \E r \in SessionReqs, t \in MintedTokens : MwStart(r, "logout", t, "ip2")
  \/ \E r \in Reqs : MwStep(r)
  \/ \E r \in SessionReqs : CleanupStart(r)
  \/ \E r \in Reqs : CleanupStep(r)
  \/ \E r \in SessionReqs, st \in {"active", "banned"}, a \in ApiKeys :
        AdminArrive(r, KeyA, st, a)
  \/ \E r \in Reqs : AdminStep(r)

SpecAdminOnly == InitLifecycle /\ [][NextAdminOnly]_vars

\* Sessions in use until they end: session checks, protected routes, logout
\* and ban of the one session of a bound license, which expires as the clock
\* passes its expiresAt.
UseTimes == {SessionDuration + 1}

NextUse ==
  \/ \E r \in SessionReqs, t \in MintedTokens, h \in HWIDs : CheckStart(r, t, h, "ip1")
  \/ \E r \in Reqs : CheckStep(r)
  \/ \E r \in SessionReqs, k \in {"protected", "logout"}, t \in MintedTokens :
        MwStart(r, k, t, "ip2")
  \/ \E r \in Reqs : MwStep(r)
  \/ \E r \in SessionReqs : AdminStart(r, KeyA, "banned")
  \/ \E r \in Reqs : AdminStep(r)
  \/ \E t \in UseTimes : Tick(t)

SpecUse == InitSession /\ [][NextUse]_vars

\* Every operation that writes the audit log, side by side: validate-key
\* behind its limiters and the detector, check-session, protected routes and
\* logout, the admin status change and the session cleanup, over a bound
\* license with one session and a log that already holds earlier events.
InitAudit ==
  /\ now = 0
  /\ jwtExpiry = JwtExpiryDefault
  /\ limiter = NoHits
  /\ env = DefaultEnv
  /\ licenses = [k \in {KeyA} |-> BoundLicense]
  /\ sessions = <<NewSession(jwtSign(sessionPayload(BoundLicense, KeyA, "H1", 0), jwtExpiry),
                             KeyA, "H1", "ip1", 0)>>
  /\ audit \in {<<AuditEvent("key_validation_success", "info", 0, "none")>> \o PriorFailures(n) :
                  n \in {0, SuspiciousThreshold + 1}}
  /\ req = [r \in Reqs |-> IdleReq]
  /\ faults = MaxFaults
  /\ completedBind = "H1"

NextAudit ==
  \/ \E r \in SessionReqs, h \in HWIDs : GateArrive(r, KeyA, h, now, "ip1")
  \/ \E r \in Reqs : GateStep(r)
  \/ \E r \in Reqs : ValidateIncrement(r)
  \/ \E r \in Reqs : ValidateSessionSave(r)
  \/ \E r \in Reqs : ValidateAuditSuccess(r)
  \/ \E r \in Reqs : ValidateAuditFail(r)
  \/ \E r \in SessionReqs, t \in PresentableTokens : CheckStart(r, t, "H1", "ip1")
  \/ \E r \in Reqs : CheckStep(r)
  \/ \E r \in SessionReqs, t \in MintedTokens : MwStart(r, "logout", t, "ip2")
  \/ \E r \in Reqs : MwStep(r)
  \/ \E r \in SessionReqs : AdminStart(r, KeyA, "banned")
  \/ \E r \in Reqs : AdminStep(r)
  \/ \E r \in SessionReqs : CleanupStart(r)
  \/ \E r \in Reqs : CleanupStep(r)

SpecAudit == InitAudit /\ [][NextAudit]_vars

\* Issuance under each setting of JWT_EXPIRY: validations of one key, fresh or
\* already bound, from both machines.
InitIssue ==
  /\ now = 0
  /\ jwtExpiry \in JwtExpiryChoices
  /\ limiter = NoHits
  /\ env = DefaultEnv
  /\ audit = <<>>
  /\ req = [r \in Reqs |-> IdleReq]
  /\ faults = 0
  /\ sessions = <<>>
  /\ \/ licenses = [k \in {KeyA} |-> NewLicense(k, 0, LicenseLifetime)] /\ completedBind = NULL
     \/ licenses = [k \in {KeyA} |-> BoundLicense] /\ completedBind = "H1"

NextIssue ==
  \/ \E r \in SessionReqs, h \in HWIDs : ValidateStart(r, KeyA, h, "ip1", FALSE)
  \/ \E r \in Reqs : ValidateStep(r)
  \/ \E t \in OutliveTimes : Tick(t)

SpecIssue == InitIssue /\ [][NextIssue]_vars

\* The same, with the event loop running every handler that has a step left:
\* a promise that has settled resumes the handler that awaits it.
SpecOutageFair ==
  SpecOutage /\ \A r \in Reqs : WF_vars(ValidateStep(r) \/ ValidateCatchOutage(r))

\* ------------------------------------------------------------------ claims
Responded(r) == req[r].pc = "done"
ValidateDone(r) == req[r].kind = "validate" /\ Responded(r)
ActiveSessionsOf(key) ==
  {i \in DOMAIN sessions :
     sessions[i].present /\ sessions[i].licenseKey = key /\ sessions[i].status = "active"}

\* C1: two concurrent validate-key requests for the same unbound key with
\* different hwids never both bind the key and succeed, and sessions of one
\* key for two different hwids never coexist.
C1_SingleBinder ==
  /\ \A r1, r2 \in Reqs :
       (/\ ValidateDone(r1) /\ ValidateDone(r2)
        /\ req[r1].key = req[r2].key /\ req[r1].hwid # req[r2].hwid
        /\ req[r1].result = "success")
       => req[r2].result # "success"
  /\ \A i, j \in DOMAIN sessions :
       sessions[i].licenseKey = sessions[j].licenseKey => sessions[i].hwid = sessions[j].hwid

\* C2: once a validate-key request has completed and bound the key to H1, a
\* validate-key request that starts later with another hwid is answered
\* hwid_mismatch and the license stays bound to H1.  (Stated for the runs in
\* which no store or audit operation fails.)
C2_NoRebindAfterBind ==
  \A r \in Reqs :
    (/\ ValidateDone(r) /\ faults = 0
     /\ req[r].sawBind # NULL /\ req[r].hwid # req[r].sawBind)
    => /\ req[r].result = "hwid_mismatch"
       /\ licenses[findByKey(req[r].key)].hwid = req[r].sawBind

\* C3: a validate-key request that is answered with a failure has not bound
\* the key, has left no session record and has not lowered the attempts counter.
C3_FailureLeavesNoTrace ==
  \A r \in Reqs :
    (ValidateDone(r) /\ req[r].result # "success")
    => ~req[r].didBind /\ ~req[r].didSave /\ ~req[r].didDecrease

\* C4: with one request at a time, after the admin status change has set a
\* license to banned or suspended and answered success, the license has no
\* active session.
C4_BanRevokesSessions ==
  \A r \in Reqs :
    (/\ req[r].kind = "admin" /\ Responded(r) /\ req[r].result = "success"
     /\ req[r].newStatus \in {"banned", "suspended"}
     /\ licenses[findByKey(req[r].key)].status = req[r].newStatus)
    => ActiveSessionsOf(findByKey(req[r].key)) = {}

\* C5: whatever the interleaving of a ban or suspension with validate-key
\* requests for the same key, once every request has completed a banned or
\* suspended license has no active session (runs in which no store or audit
\* operation failed).
C5_NoActiveSessionOfBannedKey ==
  (Quiescent /\ faults = 0 /\ licenses[KeyA].status \in {"banned", "suspended"})
  => ActiveSessionsOf(KeyA) = {}

CheckDone(r) == req[r].kind = "check" /\ Responded(r)

\* C6: a check-session request whose token verifies and whose session record
\* is absent, revoked or expired is answered session_invalid, and the record
\* is left as it was.
C6_InvalidSessionAnswer ==
  \A r \in Reqs :
    (/\ CheckDone(r) /\ req[r].verified = "ok"
     /\ (~req[r].obs.exists \/ req[r].obs.status = "revoked" \/ req[r].obs.expired))
    => req[r].result = "session_invalid" /\ req[r].usedAt = -1

\* C7: a check-session request whose token is forged, malformed or expired is
\* answered token_invalid without the session store being consulted.
C7_BadTokenAnswer ==
  \A r \in Reqs :
    (CheckDone(r) /\ req[r].verified \in {"JsonWebTokenError", "TokenExpiredError"})
    => req[r].result = "token_invalid" /\ req[r].sid = 0 /\ req[r].usedAt = -1

\* C8: a check-session request with a verifiable token and an active,
\* unexpired session is answered hwid_mismatch when the presented hwid differs
\* from the record's, and the record's lastActivity and lastIP are not written.
C8_HwidMismatchAnswer ==
  \A r \in Reqs :
    (/\ CheckDone(r) /\ req[r].verified = "ok"
     /\ req[r].obs.exists /\ req[r].obs.status = "active" /\ ~req[r].obs.expired
     /\ req[r].obs.hwid # req[r].hwid)
    => req[r].result = "hwid_mismatch" /\ req[r].usedAt = -1

\* check-session answered valid:true, or verifySession called next()
Accepted(r) ==
  \/ req[r].kind = "check" /\ req[r].result = "valid"
  \/ MwKind(r) /\ req[r].usedAt # -1

\* C9: a session is accepted only if the record loaded for the check exists,
\* has status active and is not past its expiresAt, and for check-session only
\* if the presented hwid equals the record's hwid.
C9_AcceptedOnlyIfUsable ==
  \A r \in Reqs :
    Accepted(r)
    => /\ req[r].obs.exists
       /\ req[r].obs.status = "active"
       /\ ~req[r].obs.expired
       /\ req[r].kind = "check" => req[r].obs.hwid = req[r].hwid

\* an accepted check of a session that another request then revoked
C9_Witness ==
  \E r \in Reqs :
    /\ req[r].kind = "check" /\ req[r].result = "valid"
    /\ sessions[req[r].sid].status = "revoked"

\* the step in which request r has saved updateActivity
UsedNow(r) == req[r].usedAt = -1 /\ req'[r].usedAt # -1

\* C10: every successful use of a session sets its lastActivity to now and its
\* lastIP to the caller's IP, and no step changes the expiresAt of a session.
C10_UseRefreshesActivity ==
  [][/\ \A r \in Reqs :
          UsedNow(r) => /\ sessions'[req[r].sid].lastActivity = now
                        /\ sessions'[req[r].sid].lastIP = req[r].ip
     /\ \A i \in DOMAIN sessions : sessions'[i].expiresAt = sessions[i].expiresAt]_vars

\* C11: a logout of a session that is already revoked is answered success,
\* leaves the status revoked and does not write lastActivity.
C11_DoubleRevokeSucceeds ==
  \A r \in Reqs :
    (/\ req[r].kind = "logout" /\ Responded(r) /\ req[r].verified = "ok"
     /\ req[r].obs.exists /\ req[r].obs.status = "revoked")
    => /\ req[r].result = "success"
       /\ sessions[req[r].sid].status = "revoked"
       /\ req[r].usedAt = -1

\* C12: no step of any operation changes the status of a session record from
\* revoked to anything else.
C12_RevokedStaysRevoked ==
  [][\A i \in DOMAIN sessions :
       sessions[i].status = "revoked" => sessions'[i].status = "revoked"]_vars

\* a request that loaded the session while it was active has saved its
\* updateActivity after the record was revoked, and the record is still revoked
C12_Witness ==
  \E r \in Reqs :
    /\ req[r].staleWrite /\ req[r].sess.status = "active"
    /\ sessions[req[r].sid].status = "revoked"

\* validate-key request v was answered success (with its session token)
IssuedBy(v) == ValidateDone(v) /\ req[v].result = "success"

C14_TokenAndRecordTogether ==
  [][/\ \A r \in Reqs :
          /\ (req'[r].issued # NoToken /\ req[r].issued = NoToken)
             => /\ req'[r].result = "success"
                /\ \E i \in DOMAIN sessions :
                     /\ sessions[i].present
                     /\ sessions[i].sessionToken = req'[r].issued
                     /\ sessions[i].licenseKey = req'[r].key
                     /\ sessions[i].hwid = req'[r].hwid
          /\ (req'[r].kind = "validate" /\ req'[r].result = "success")
             => req'[r].issued # NoToken
     /\ \A i \in DOMAIN sessions' :
          i \notin DOMAIN sessions
          => /\ sessions'[i].status = "active"
             /\ sessions'[i].sessionToken.sig = "valid"
             /\ sessions'[i].sessionToken.licenseKey = sessions'[i].licenseKey
             /\ sessions'[i].sessionToken.hwid = sessions'[i].hwid]_vars

\* a validation has returned its token, and another one has persisted a record
\* and then failed without returning a token
C14_Witness ==
  /\ \E r \in Reqs : /\ req[r].issued # NoToken
                     /\ sessions[req[r].sid].sessionToken = req[r].issued
  /\ \E r \in Reqs : ValidateDone(r) /\ req[r].didSave /\ req[r].issued = NoToken

\* C15: a validate-key request whose only failed operation is an audit write
\* is not answered server_error.
C15_AuditFailureKeepsOutcome ==
  \A r \in Reqs :
    (ValidateDone(r) /\ req[r].failedAt = "audit") => req[r].result # "server_error"

\* C16: no step of a validate-key request with fromStoredKey = true changes the
\* attempts counter of the license, and its incrementAttempts step changes
\* lastAttempt and lastIP only.
C16_StoredKeyKeepsAttempts ==
  [][\A r \in Reqs :
       (req'[r].kind = "validate" /\ req'[r].fromStoredKey /\ req'[r] # req[r])
       => /\ licenses'[KeyA].attempts = licenses[KeyA].attempts
          /\ req[r].pc = "increment"
             => \A f \in DOMAIN licenses[KeyA] \ {"lastAttempt", "lastIP"} :
                  licenses'[KeyA][f] = licenses[KeyA][f]]_vars

\* two stored-key validations have succeeded a day or more after the last
\* reset, and the counter still holds the two attempts it started with
C16_Witness ==
  /\ now >= DayLen
  /\ licenses[KeyA].attempts = 2 /\ licenses[KeyA].lastIP = "ip2"
  /\ licenses[KeyA].lastAttempt = now
  /\ \E r1, r2 \in Reqs :
       /\ r1 # r2
       /\ ValidateDone(r1) /\ req[r1].fromStoredKey /\ req[r1].result = "success"
       /\ ValidateDone(r2) /\ req[r2].fromStoredKey /\ req[r2].result = "success"

\* the step in which request r has saved its incrementAttempts
Incremented(r) ==
  /\ req[r].kind = "validate" /\ req[r].pc = "increment"
  /\ req'[r].pc \notin {"increment", "catch"}

\* C17: a counted attempt (fromStoredKey = false) made a day or more after the
\* license's lastAttemptsReset leaves attempts = 1 and lastAttemptsReset = the
\* time of the attempt.
C17_DailyResetToOne ==
  [][\A r \in Reqs :
       (/\ Incremented(r) /\ ~req[r].fromStoredKey
        /\ now - licenses[KeyA].lastAttemptsReset >= DayLen)
       => /\ licenses'[KeyA].attempts = 1
          /\ licenses'[KeyA].lastAttemptsReset = now]_vars

\* a license that had counted two attempts has been reset to one by an attempt
\* made exactly one day after the previous reset
C17_Witness ==
  /\ now = DayLen
  /\ licenses[KeyA].attempts = 1 /\ licenses[KeyA].lastAttemptsReset = DayLen
  /\ licenses[KeyA].hwid = "H1" /\ completedBind = "H1"
  /\ \E r \in Reqs : ValidateDone(r) /\ ~req[r].fromStoredKey /\ req[r].lic.attempts = 1

\* a validate-key request that was answered without any of its operations failing
Decided(r) == ValidateDone(r) /\ req[r].failedAt = "none"

\* request r has logged its failure with the given severity
LoggedFailure(r, severity) ==
  \E i \in DOMAIN audit :
    /\ audit[i].by = r /\ audit[i].eventType = "key_validation_failed"
    /\ audit[i].severity = severity /\ audit[i].reason = req[r].result

\* C18: the answer of validate-key is the first that applies of not_found,
\* banned (logged critical), suspended (warning), expired (info) and
\* hwid_mismatch (critical), whatever later conditions hold as well.
C18_FirstMatchWins ==
  \A r \in Reqs :
    Decided(r)
    => LET l == req[r].lic
       IN /\ ~req[r].found => req[r].result = "not_found"
          /\ (req[r].found /\ l.status = "banned")
             => req[r].result = "banned" /\ LoggedFailure(r, "critical")
          /\ (req[r].found /\ l.status = "suspended")
             => req[r].result = "suspended" /\ LoggedFailure(r, "warning")
          /\ (req[r].found /\ l.status = "active" /\ now > l.expiresAt)
             => req[r].result = "expired" /\ LoggedFailure(r, "info")
          /\ (/\ req[r].found /\ l.status = "active" /\ now <= l.expiresAt
              /\ l.used /\ l.hwid \notin {NULL, req[r].hwid})
             => req[r].result = "hwid_mismatch" /\ LoggedFailure(r, "critical")

\* a license that is banned, expired and bound to another hwid answers banned,
\* and an unknown key answers not_found
C18_Witness ==
  /\ \E r \in Reqs :
       /\ Decided(r) /\ req[r].result = "banned"
       /\ now > req[r].lic.expiresAt
       /\ req[r].lic.hwid = "H1" /\ req[r].hwid = "H2"
  /\ \E r \in Reqs : Decided(r) /\ req[r].result = "not_found"

\* C19: validate-key of a license whose status is active and whose expiresAt
\* is earlier than now answers expired, binds nothing and saves no session,
\* whatever the hwid.
C19_ExpiredActiveLicense ==
  \A r \in Reqs :
    (/\ Decided(r) /\ req[r].found
     /\ req[r].lic.status = "active" /\ req[r].lic.expiresAt < now)
    => /\ req[r].result = "expired"
       /\ ~req[r].didBind /\ ~req[r].didSave
       /\ sessions = <<>>

\* an expired license with status active has refused its own hwid and another
C19_Witness ==
  \E r1, r2 \in Reqs :
    /\ licenses[KeyA].status = "active" /\ licenses[KeyA].expiresAt < now
    /\ licenses[KeyA].hwid = "H1"
    /\ Decided(r1) /\ req[r1].hwid = "H1" /\ req[r1].result = "expired"
    /\ Decided(r2) /\ req[r2].hwid = "H2" /\ req[r2].result = "expired"

\* the audit events appended by request r
EventsOf(r) == {i \in DOMAIN audit : audit[i].by = r}

PolicyFailures == {"banned", "suspended", "expired", "hwid_mismatch"}

\* C21: a validate-key request with fromStoredKey = false that is answered
\* banned, suspended, expired or hwid_mismatch has raised the stored attempts
\* counter by exactly one (or set it to 1 on a daily reset), has saved no
\* session and, for hwid_mismatch, has logged key_validation_failed as critical.
C21_FailuresAreCounted ==
  \A r \in Reqs :
    (ValidateDone(r) /\ ~req[r].fromStoredKey /\ req[r].result \in PolicyFailures)
    => /\ req[r].counted
       /\ ~req[r].didSave
       /\ req[r].result = "hwid_mismatch" => LoggedFailure(r, "critical")

\* the step in which validate-key request r is answered success
AnsweredSuccess(r) ==
  /\ req'[r].kind = "validate" /\ req'[r].result = "success"
  /\ req[r].pc # "done" /\ req'[r].pc = "done"

\* C22: when a validate-key request that found its key unbound, active and
\* unexpired is answered success, the license is bound to the request's hwid
\* and used, and the session the request saved holds the request's key and
\* hwid and a token carrying the license's licenseType and features.
C22_FreshKeyBindsAndIssues ==
  [][\A r \in Reqs :
       (AnsweredSuccess(r) /\ req[r].didBind)
       => /\ licenses'[KeyA].hwid = req[r].hwid /\ licenses'[KeyA].used
          /\ req[r].didSave
          /\ sessions'[req[r].sid].licenseKey = req[r].key
          /\ sessions'[req[r].sid].hwid = req[r].hwid
          /\ sessions'[req[r].sid].sessionToken.licenseType = licenses'[KeyA].licenseType
          /\ sessions'[req[r].sid].sessionToken.features = licenses'[KeyA].features]_vars

\* C23: with one request at a time, after a ban of a license that was already
\* banned has answered success, the license is banned, none of its sessions
\* is active, and the request has appended exactly one audit event, an
\* admin_action of severity critical (runs in which no operation failed).
C23_RebanIsIdempotent ==
  \A r \in Reqs :
    (/\ req[r].kind = "admin" /\ Responded(r) /\ req[r].result = "success"
     /\ faults = 0
     /\ req[r].oldStatus = "banned" /\ req[r].newStatus = "banned"
     /\ licenses[findByKey(req[r].key)].status = "banned")
    => /\ ActiveSessionsOf(findByKey(req[r].key)) = {}
       /\ Cardinality(EventsOf(r)) = 1
       /\ \A i \in EventsOf(r) :
            audit[i].eventType = "admin_action" /\ audit[i].severity = "critical"

\* the events of one type that request r has appended
GateEvents(r, eventType) == {i \in EventsOf(r) : audit[i].eventType = eventType}

\* C24: a validate-key call that arrives once its address has made the
\* maximum number of validate-key calls of the current window is answered
\* rate_limit_exceeded with a retry-after hint, has appended exactly one
\* rate_limit_exceeded audit event, and has not reached validation: it has
\* looked up, counted, bound and saved nothing.
C24_LimitedCallIsAudited ==
  \A r \in Reqs :
    (ValidateDone(r) /\ req[r].overLimit /\ faults = 0)
    => /\ req[r].result = "rate_limit_exceeded" /\ req[r].retryAfter
       /\ Cardinality(GateEvents(r, "rate_limit_exceeded")) = 1
       /\ ~req[r].found /\ ~req[r].counted /\ ~req[r].didBind /\ ~req[r].didSave

\* C25: a validate-key request that meets the detector while the log holds
\* more failure events of its address from the trailing hour than the
\* threshold has appended one suspicious_activity event of severity critical;
\* in production it has gone on to validation, and outside production it is
\* answered suspicious_activity without a lookup or a change of any record.
C25_SuspectIsFlagged ==
  \A r \in Reqs :
    (ValidateDone(r) /\ req[r].suspect /\ faults = 0)
    => /\ Cardinality(GateEvents(r, "suspicious_activity")) = 1
       /\ \A i \in GateEvents(r, "suspicious_activity") : audit[i].severity = "critical"
       /\ IF env.NODE_ENV = "production"
            THEN req[r].checkedAt >= 0
            ELSE /\ req[r].result = "suspicious_activity"
                 /\ ~req[r].found /\ ~req[r].counted /\ ~req[r].didBind /\ ~req[r].didSave

\* the validators have something to report about request r: its key or its
\* hwid is malformed, or its timestamp was out of the window when they ran
Malformed(r) ==
  /\ req[r].kind = "validate"
  /\ \/ ~matchesKeyPattern(req[r].key)
     \/ ~hwidIsLength(req[r].hwid)
     \/ req[r].checkedAt >= 0 /\ ~timestampInWindow(req[r].timestamp, req[r].checkedAt)

\* C26: a validate-key request with a malformed key, hwid or timestamp never
\* gets to the license lookup: it has loaded, counted, bound and saved
\* nothing, has been issued no token and has appended no key_validation_failed
\* event; once the validators have run it is answered validation_failed.
C26_MalformedTouchesNothing ==
  \A r \in Reqs :
    Malformed(r)
    => /\ req[r].pc \in {"limitAudit", "count", "suspiciousAudit", "done"}
       /\ ~req[r].found /\ req[r].lic = NoLicense
       /\ ~req[r].counted /\ ~req[r].didBind /\ ~req[r].didSave /\ req[r].issued = NoToken
       /\ GateEvents(r, "key_validation_failed") = {}
       /\ (Responded(r) /\ req[r].checkedAt >= 0) => req[r].result = "validation_failed"

\* a request with a lower-case key has been answered validation_failed and the
\* license it spells is as it was created
C26_Witness ==
  \E r \in Reqs :
    /\ Malformed(r) /\ Responded(r) /\ req[r].result = "validation_failed"
    /\ req[r].key = <<"k", "a">>
    /\ licenses[KeyA] = NewLicense(KeyA, 0, LicenseLifetime)
    /\ sessions = <<>>

\* C27: a validate-key request one of whose store operations (the lookup, the
\* incrementAttempts save, the bind save, the session save) has failed ends
\* with the answer server_error.
C27_StoreFailureAnswered ==
  \A r \in Reqs :
    (req[r].kind = "validate" /\ req[r].failedAt = "store" /\ Finished(r))
    => Responded(r) /\ req[r].result = "server_error"

\* the session record a request has loaded is usable for the hwid it presents
\* (hwid is compared by check-session only)
RecordUsable(r) ==
  /\ req'[r].sid # 0
  /\ sessions[req'[r].sid].status = "active"
  /\ now <= sessions[req'[r].sid].expiresAt
  /\ req[r].kind = "check" => sessions[req'[r].sid].hwid = req[r].hwid

\* C28: when check-session or verifySession has loaded the session record of
\* a verified token, it accepts exactly if that record is active, unexpired
\* and (check-session) bound to the presented hwid, whatever the fields of
\* the owning license are.
C28_SessionCheckIgnoresLicense ==
  [][\A r \in Reqs :
       (/\ req[r].kind \in {"check", "protected", "logout"}
        /\ req[r].pc = "find" /\ req'[r].pc \in {"update", "auditReject"})
       => (req'[r].pc = "update" <=> RecordUsable(r))]_vars

\* a session check is accepted at a clock reading at which the license that
\* owns the session has expired and counts more attempts than at issuance
C28_Witness ==
  \E r \in Reqs :
    /\ req[r].kind = "check" /\ Responded(r) /\ req[r].result = "valid"
    /\ req[r].usedAt = now
    /\ isExpired(licenses[KeyA], now)
    /\ licenses[KeyA].attempts > OldLicense.attempts

\* request r is an admin status change that presented the configured key and
\* whose license.save() is the step being taken
AdminSaves(r, k) ==
  /\ req[r].kind = "admin" /\ req[r].pc = "save" /\ req'[r].pc \in {"revoke", "audit"}
  /\ req[r].apiKey = ADMIN_API_KEY
  /\ findByKey(req[r].key) = k
  /\ licenses'[k].status = req[r].newStatus

\* C29: no step changes a license's expiresAt, and a step that changes a
\* license's status is the save of an admin status change whose request
\* presented the configured admin API key; a request without that key is
\* answered admin_auth_required and gets no further.
C29_StatusChangesByAdminOnly ==
  [][/\ \A k \in DOMAIN licenses :
          /\ licenses'[k].expiresAt = licenses[k].expiresAt
          /\ licenses'[k].status # licenses[k].status => \E r \in Reqs : AdminSaves(r, k)
     /\ \A r \in Reqs :
          (req'[r].kind = "admin" /\ req'[r].apiKey # ADMIN_API_KEY)
          => req'[r].pc = "done" /\ req'[r].result = "admin_auth_required"]_vars

\* an admin with the configured key has banned the license while a validation
\* that loaded it active is between its two saves: it has saved its attempt
\* and holds the stale copy it is about to bind and save again
C29_Witness ==
  \E r, a \in Reqs :
    /\ req[a].kind = "admin" /\ req[a].apiKey = ADMIN_API_KEY /\ req[a].newStatus = "banned"
    /\ req[a].pc \in {"revoke", "audit", "done"}
    /\ licenses[KeyA].status = "banned"
    /\ req[r].kind = "validate" /\ req[r].pc = "bind" /\ req[r].counted
    /\ req[r].lic.status = "active"

\* C30: every step of a logout request leaves the license and every session
\* but the one of its token as they were; its revoke sets that session's
\* status to revoked; and when it is answered success that session is revoked
\* and the request has appended exactly one session_revoked event.
C30_LogoutRevokesOwnSession ==
  [][\A r \in Reqs :
       (req'[r].kind = "logout" /\ req'[r] # req[r])
       => /\ licenses' = licenses
          /\ \A i \in DOMAIN sessions : i # req'[r].sid => sessions'[i] = sessions[i]
          /\ (req[r].pc = "revoke" /\ req'[r].pc = "auditRevoked")
               => /\ sessions[req[r].sid].sessionToken = req[r].token
                  /\ sessions'[req[r].sid].status = "revoked"
          /\ (req'[r].pc = "done" /\ req'[r].result = "success")
               => /\ sessions'[req[r].sid].status = "revoked"
                  /\ Cardinality({i \in DOMAIN audit' :
                                    audit'[i].by = r /\ audit'[i].eventType = "session_revoked"}) = 1
                  /\ Cardinality({i \in DOMAIN audit' : audit'[i].by = r}) = 1]_vars

\* a logout has succeeded and another session of the same license and hwid is
\* still active
C30_Witness ==
  \E r \in Reqs, i \in DOMAIN sessions :
    /\ req[r].kind = "logout" /\ Responded(r) /\ req[r].result = "success"
    /\ i # req[r].sid
    /\ sessions[i].licenseKey = sessions[req[r].sid].licenseKey
    /\ sessions[i].hwid = sessions[req[r].sid].hwid
    /\ sessions[i].status = "active" /\ sessions[req[r].sid].status = "revoked"

\* C31: the audit log is append-only: no step of validate-key, check-session,
\* logout, the admin status change, the session cleanup, the rate limiter or
\* the suspicious-activity detector modifies or deletes a written event; the
\* log after a step is the log before it, followed by what the step appended.
C31_AuditAppendOnly ==
  [][/\ Len(audit') >= Len(audit)
     /\ SubSeq(audit', 1, Len(audit)) = audit]_vars

\* the log of the start is still there under events of the limiter, of an
\* admin action and of a finished cleanup
C31_Witness ==
  /\ Len(audit) >= 4
  /\ \E r \in Reqs : req[r].kind = "cleanup" /\ Responded(r) /\ req[r].result = "success"
  /\ \E i \in DOMAIN audit : audit[i].eventType = "admin_action" /\ audit[i].reason = "cleanup"
  /\ \E i \in DOMAIN audit : audit[i].by = 0
  /\ \E i \in DOMAIN audit : audit[i].by # 0 /\ audit[i].eventType # "admin_action"

\* C32: the expiry claim of the token of every session record equals the
\* record's expiresAt, and both are the issue time plus the fixed session
\* duration, whatever the token expiry setting is.
C32_TokenExpiryIsRecordExpiry ==
  \A i \in DOMAIN sessions :
    sessions[i].present
    => /\ sessions[i].sessionToken.exp = sessions[i].expiresAt
       /\ sessions[i].expiresAt = sessions[i].sessionToken.iat + SessionDuration

\* request r, for a key that no license record holds, takes this step
UnknownKeyStep(r) ==
  /\ req'[r].kind = "validate" /\ req'[r] # req[r]
  /\ findByKey(req'[r].key) \notin DOMAIN licenses

\* C33: a validate-key request for a key without a license record creates no
\* license and no session and changes no license (no attempts counter) at any
\* of its steps; when none of its operations fails it is answered not_found,
\* and the step that answers it appends the request's only audit event, a
\* key_validation_failed of severity warning.
C33_UnknownKeyNotCounted ==
  [][\A r \in Reqs :
       UnknownKeyStep(r)
       => /\ licenses' = licenses
          /\ sessions' = sessions
          /\ (req'[r].pc = "done" /\ req'[r].failedAt = "none")
             => /\ req'[r].result = "not_found"
                /\ EventsOf(r) = {}
                /\ audit' = Append(audit, [AuditEvent("key_validation_failed", "warning", r,
                                                      "not_found") EXCEPT
                                             !.ipAddress = req'[r].ip])
          /\ req'[r].pc # "done" => audit' = audit]_vars

\* the unknown key has been answered not_found after a validation of the
\* existing key has counted its attempt
C33_Witness ==
  \E r, v \in Reqs :
    /\ Decided(r) /\ req[r].key = KeyZ /\ req[r].result = "not_found"
    /\ LoggedFailure(r, "warning")
    /\ ValidateDone(v) /\ req[v].key = KeyA /\ req[v].counted

\* C34: no two session records in the store hold the same sessionToken.
C34_TokenIdentifiesSession ==
  \A i, j \in DOMAIN sessions :
    (i # j /\ sessions[i].present /\ sessions[j].present)
    => sessions[i].sessionToken # sessions[j].sessionToken

\* a day or more has passed since the stored lastAttemptsReset
ResetDue == now - licenses[KeyA].lastAttemptsReset >= DayLen

\* C35: while the daily reset is due, no step of a validate-key request with
\* fromStoredKey = true changes attempts or lastAttemptsReset, and the
\* incrementAttempts step of a request with fromStoredKey = false performs
\* the reset (lastAttemptsReset becomes the time of that step).
C35_StoredKeyNeverResets ==
  [][\A r \in Reqs :
       ResetDue
       => /\ (req'[r].kind = "validate" /\ req'[r].fromStoredKey /\ req'[r] # req[r])
             => /\ licenses'[KeyA].attempts = licenses[KeyA].attempts
                /\ licenses'[KeyA].lastAttemptsReset = licenses[KeyA].lastAttemptsReset
          /\ (Incremented(r) /\ ~req[r].fromStoredKey)
             => licenses'[KeyA].lastAttemptsReset = now]_vars

\* a stored-key validation has been answered while the reset was due and the
\* reset is still due: the counted request that will perform it has loaded
\* the license
C35_Witness ==
  /\ ResetDue
  /\ licenses[KeyA].attempts = 2 /\ licenses[KeyA].lastAttempt = now
  /\ \E r1, r2 \in Reqs :
       /\ ValidateDone(r1) /\ req[r1].fromStoredKey /\ req[r1].result = "success"
       /\ req[r2].kind = "validate" /\ ~req[r2].fromStoredKey /\ req[r2].pc = "increment"

\* the requests whose incrementAttempts has been saved (nothing having failed)
SavedIncrements ==
  {r \in Reqs : req[r].kind = "validate" /\ ~req[r].fromStoredKey
                /\ req[r].found /\ req[r].pc # "increment"}

\* C36: within one reset window, and with no operation failing, the attempts
\* counter of the license, which started at zero, equals the number of
\* validate-key requests with fromStoredKey = false that have saved their
\* incrementAttempts, however the requests interleave.
C36_NoLostIncrement ==
  (faults = 0 /\ now = 0) => licenses[KeyA].attempts = Cardinality(SavedIncrements)

\* C37: every request that has arrived is eventually answered, whichever of
\* its store and audit operations fail, the audit write of the error handler
\* included.
C37_EveryRequestAnswered ==
  \A r \in Reqs : (req[r].kind # "none") ~> Responded(r)

\* C38: in every state every license has used = TRUE exactly if its hwid is
\* set.
C38_UsedIffBound ==
  \A k \in DOMAIN licenses : licenses[k].used <=> licenses[k].hwid # NULL

\* two requests from different machines have both bound the license that
\* both had loaded unbound
C38_Witness ==
  /\ licenses[KeyA].used /\ licenses[KeyA].hwid # NULL
  /\ \E r1, r2 \in Reqs :
       /\ req[r1].didBind /\ req[r2].didBind
       /\ req[r1].hwid # req[r2].hwid

\* C39: every step of a validate-key request leaves every session record that
\* exists as it was; the session step adds exactly one record, active and for
\* the request's key and hwid, and no other step adds any; a request answered
\* success has taken that step.
C39_ValidationKeepsEarlierSessions ==
  [][\A r \in Reqs :
       (req'[r].kind = "validate" /\ req'[r] # req[r])
       => /\ \A i \in DOMAIN sessions : sessions'[i] = sessions[i]
          /\ IF req[r].pc = "sessionSave" /\ req'[r].pc = "auditSuccess"
               THEN /\ Len(sessions') = Len(sessions) + 1
                    /\ sessions'[Len(sessions')].status = "active"
                    /\ sessions'[Len(sessions')].licenseKey = req[r].key
                    /\ sessions'[Len(sessions')].hwid = req[r].hwid
               ELSE Len(sessions') = Len(sessions)
          /\ AnsweredSuccess(r) => req[r].didSave]_vars

\* a bound key has been validated again with its hwid: the request is
\* answered success and the session of the first validation is active beside
\* the new one
C39_Witness ==
  \E r \in Reqs :
    /\ ValidateDone(r) /\ req[r].result = "success" /\ ~req[r].didBind
    /\ req[r].sid > 1
    /\ sessions[1].status = "active" /\ sessions[req[r].sid].status = "active"
    /\ sessions[1].licenseKey = sessions[req[r].sid].licenseKey
    /\ sessions[1].hwid = sessions[req[r].sid].hwid
    /\ sessions[1].lastActivity = 0

\* C40: the cascade step of an admin status change to banned or suspended
\* leaves no active session stored under the canonical key of the license
\* that the request's spelling of the key resolves to.
C40_CascadeCoversEverySpelling ==
  [][\A r \in Reqs :
       (req[r].kind = "admin" /\ req[r].pc = "revoke" /\ req'[r].pc = "audit")
       => \A i \in DOMAIN sessions' :
            (sessions'[i].present /\ sessions'[i].licenseKey = findByKey(req[r].key))
            => sessions'[i].status # "active"]_vars

====
